---------------------------- MODULE Spec2Model ----------------------------
(***************************************************************************)
(* BCU USD exchange-rate API: the lookup layer (bcu-service.js), the SOAP  *)
(* helpers (createSOAPClient, invokeSOAPMethod) and the two rate routes.   *)
(*                                                                         *)
(* JavaScript values are modelled by tagged records of one shape per kind  *)
(* of value, so that every comparison TLC makes is between like values:    *)
(*   scalar   [k : "num" | "nan" | "undef" | "null", n : Int]              *)
(*   text     a tuple of one-character strings                             *)
(*   date     [k : "date" | "undef", y, m, d, hh]                          *)
(* The process runs in UTC (the container sets no TZ), so a Fecha's local  *)
(* calendar day is its UTC calendar day.                                   *)
(***************************************************************************)
EXTENDS Integers, Sequences, FiniteSets, TLC

(***************************************************************************)
(* Bounds of the model.                                                    *)
(***************************************************************************)
MaxCurrencies == 3
MaxRecords == 2

(***************************************************************************)
(* Program constants.                                                      *)
(***************************************************************************)
NoDataCode == 100
localExchangeRatesGroup == 2
maxDaysLookback == 31
DefaultRetries == 3

--------------------------------------------------------------------------
(* Scalars: what Number(), ?? and !== null see.                            *)
Num(n) == [k |-> "num", n |-> n]
NaN == [k |-> "nan", n |-> 0]
Undef == [k |-> "undef", n |-> 0]
Null == [k |-> "null", n |-> 0]

\* Number(v): undefined -> NaN, null -> 0, a number (or numeric text) -> it.
ToNumber(v) ==
    CASE v.k = "num" -> v
      [] v.k = "null" -> Num(0)
      [] OTHER -> NaN

IsFinite(v) == v.k = "num"

\* a ?? b
Coalesce(a, b) == IF a.k \in {"undef", "null"} THEN b ELSE a

--------------------------------------------------------------------------
(* Text.  A string is a tuple of characters; NoText is an absent Nombre.   *)
Str(s) == [k |-> "str", s |-> s]
NoText == [k |-> "undef", s |-> <<>>]

\* String.prototype.includes
Includes(hay, needle) ==
    \E i \in 0..(Len(hay) - Len(needle)) :
        \A j \in 1..Len(needle) : hay[i + j] = needle[j]

\* NFD decomposition followed by removal of U+0300..U+036F
StripDiacritic(c) ==
    CASE c = "Ó" -> "O"
      [] c = "ó" -> "o"
      [] c = "Á" -> "A"
      [] c = "á" -> "a"
      [] OTHER -> c

UpperChar(c) ==
    CASE c = "a" -> "A" [] c = "b" -> "B" [] c = "c" -> "C" [] c = "d" -> "D"
      [] c = "e" -> "E" [] c = "h" -> "H" [] c = "i" -> "I" [] c = "l" -> "L"
      [] c = "o" -> "O" [] c = "r" -> "R" [] c = "s" -> "S" [] c = "t" -> "T"
      [] c = "u" -> "U" [] c = "ó" -> "Ó" [] c = "á" -> "Á"
      [] OTHER -> c

RECURSIVE TrimStart(_)
TrimStart(s) == IF s # <<>> /\ Head(s) = " " THEN TrimStart(Tail(s)) ELSE s

RECURSIVE TrimEnd(_)
TrimEnd(s) ==
    IF s # <<>> /\ s[Len(s)] = " " THEN TrimEnd(SubSeq(s, 1, Len(s) - 1)) ELSE s

Trim(s) == TrimEnd(TrimStart(s))

\* normalizeString without the removal of the combining marks
normalizeStringNoStrip(t) ==
    LET s == IF t.k = "str" THEN t.s ELSE <<>>
    IN  Trim([i \in 1..Len(s) |-> UpperChar(s[i])])

\* (str || '').toString().normalize('NFD').replace(marks, '').toUpperCase().trim()
normalizeString(t) ==
    LET s == IF t.k = "str" THEN t.s ELSE <<>>
    IN  Trim([i \in 1..Len(s) |-> UpperChar(StripDiacritic(s[i]))])

--------------------------------------------------------------------------
(* Dates.  An ISO date string 'YYYY-MM-DD' is the fixed-width triple       *)
(* <<y, m, d>>; a Fecha is an instant with an hour of day.                 *)
Fecha(y, m, d, hh) == [k |-> "date", y |-> y, m |-> m, d |-> d, hh |-> hh]
NoFecha == [k |-> "undef", y |-> 0, m |-> 0, d |-> 0, hh |-> 0]

\* days since 1970-01-01 of a civil date (proleptic Gregorian)
DaysFromCivil(y, m, d) ==
    LET yy == IF m <= 2 THEN y - 1 ELSE y
        era == yy \div 400
        yoe == yy - era * 400
        mp == IF m > 2 THEN m - 3 ELSE m + 9
        doy == (153 * mp + 2) \div 5 + d - 1
        doe == yoe * 365 + yoe \div 4 - yoe \div 100 + doy
    IN  era * 146097 + doe - 719468

CivilFromDays(z0) ==
    LET z == z0 + 719468
        era == z \div 146097
        doe == z - era * 146097
        yoe == (doe - doe \div 1460 + doe \div 36524 - doe \div 146096) \div 365
        doy == doe - (365 * yoe + yoe \div 4 - yoe \div 100)
        mp == (5 * doy + 2) \div 153
        d == doy - (153 * mp + 2) \div 5 + 1
        m == IF mp < 10 THEN mp + 3 ELSE mp - 9
        y == yoe + era * 400 + (IF m <= 2 THEN 1 ELSE 0)
    IN  <<y, m, d>>

\* dayjs(x).format('YYYY-MM-DD')
FormatISO(f) == <<f.y, f.m, f.d>>

\* an ordering by month and day that leaves the year out
DateValueByMonthDay(f) == (f.m * 31 + f.d) * 24 + f.hh

\* new Date(x) as a number (hours since the epoch), for the subtraction in sort
DateValue(f) == DaysFromCivil(f.y, f.m, f.d) * 24 + f.hh

\* dayjs().subtract(n, 'day').format('YYYY-MM-DD')
SubtractDays(iso, n) == CivilFromDays(DaysFromCivil(iso[1], iso[2], iso[3]) - n)

--------------------------------------------------------------------------
(* Collections found under a response path:                                *)
(*   "undef"  nothing there (falsy)                                        *)
(*   "arr"    an array of the items (truthy, also when empty)              *)
(*   "map"    a plain object whose values are the items                    *)
(*   "rec"    one record-shaped object, items = <<that record>>            *)
NoList == [k |-> "undef", items |-> <<>>]
Arr(items) == [k |-> "arr", items |-> items]
Map(items) == [k |-> "map", items |-> items]
One(item) == [k |-> "rec", items |-> <<item>>]

Truthy(lv) == lv.k # "undef"

\* a || b || c ... over the path values, ending in the literal []
RECURSIVE FirstTruthy(_)
FirstTruthy(lvs) ==
    IF lvs = <<>> THEN Arr(<<>>)
    ELSE IF Truthy(Head(lvs)) THEN Head(lvs) ELSE FirstTruthy(Tail(lvs))

--------------------------------------------------------------------------
(* Currency descriptors and the currencies response.                       *)
Desc(codigo, nombre) == [Codigo |-> codigo, Nombre |-> nombre]

\* a primitive (a field value met where a descriptor was expected): x?.Nombre
\* and x?.Codigo are undefined
PrimDesc == Desc(Undef, NoText)

MonedasResponse(linea, outMonedas, out, retMonedas, ret) ==
    [nil |-> FALSE, linea |-> linea, outMonedas |-> outMonedas, out |-> out,
     retMonedas |-> retMonedas, ret |-> ret]

\* a null result
NullMonedas ==
    [nil |-> TRUE, linea |-> NoList, outMonedas |-> NoList, out |-> NoList,
     retMonedas |-> NoList, ret |-> NoList]

\* bcu-service.js 42-48
currencyList(result) ==
    FirstTruthy(<<result.linea, result.outMonedas, result.out,
                  result.retMonedas, result.ret>>)

\* Object.values of a descriptor-valued collection
DescObjectValues(lv) ==
    CASE lv.k = "map" -> lv.items
      [] lv.k = "rec" -> <<PrimDesc, PrimDesc>>
      [] OTHER -> <<>>

\* bcu-service.js 50-52
currenciesOf(result) ==
    LET l == currencyList(result)
    IN  IF l.k = "arr" THEN l.items ELSE DescObjectValues(l)

DOLAR_USA == <<"D", "O", "L", "A", "R", " ", "U", "S", "A">>
DLS_USA == <<"D", "L", "S", " ", "U", "S", "A">>
DLS_DOT_USA == <<"D", "L", "S", ".", " ", "U", "S", "A">>
BILLETE == <<"B", "I", "L", "L", "E", "T", "E">>
CASH == <<"C", "A", "S", "H">>

\* bcu-service.js 55-64, the filter's predicate
IsUsdCandidate(currency) ==
    LET normalizedName == normalizeString(currency.Nombre)
        originalName == IF currency.Nombre.k = "str" THEN currency.Nombre.s ELSE <<>>
    IN  \/ Includes(normalizedName, DOLAR_USA)
        \/ Includes(normalizedName, DLS_USA)
        \/ Includes(normalizedName, DLS_DOT_USA)
        \/ Includes(originalName, DLS_DOT_USA)

usdCandidatesOf(currencies) == SelectSeq(currencies, IsUsdCandidate)

\* the cash test of the legacy obtenerCodigoMonedaUSD (index.js 272): BILLETE alone
IsCashEntryBilleteOnly(currency) ==
    Includes(normalizeString(currency.Nombre), BILLETE)

\* bcu-service.js 77-81, the find's predicate
IsCashEntry(currency) ==
    \/ Includes(normalizeString(currency.Nombre), BILLETE)
    \/ Includes(normalizeString(currency.Nombre), CASH)

\* Array.prototype.find: the first element satisfying the predicate
\* bcu-service.js 77-83: cashEntry || usdCandidates[0]
selectedCurrency(usdCandidates) ==
    LET cash == SelectSeq(usdCandidates, IsCashEntry)
    IN  IF cash # <<>> THEN cash[1] ELSE usdCandidates[1]

\* currencies.map(c => c?.Nombre)
namesOf(currencies) == [i \in 1..Len(currencies) |-> currencies[i].Nombre]

\* Array.prototype.join(', '): an undefined element is written as ''
RECURSIVE JoinNames(_)
JoinNames(names) ==
    IF names = <<>> THEN <<>>
    ELSE IF Len(names) = 1 THEN names[1].s
    ELSE names[1].s \o <<",", " ">> \o JoinNames(Tail(names))

(* Errors: new Error(...) with the parts of its message kept apart.        *)
Err(kind, code, message) == [kind |-> kind, code |-> code, message |-> message]
NoErr == Err("none", 0, "")

\* getUSDCurrencyCode without the logger.error of lines 67-70
UsdOutcomeNoLog(result) ==
    LET currencies == currenciesOf(result)
        usdCandidates == usdCandidatesOf(currencies)
    IN  IF Len(usdCandidates) = 0
        THEN [err |-> Err("CurrencyNotFound", 0, ""), code |-> NaN, name |-> NoText,
              errorLogged |-> FALSE, logged |-> <<>>]
        ELSE LET sel == selectedCurrency(usdCandidates)
                 code == ToNumber(sel.Codigo)
             IN  IF ~IsFinite(code)
                 THEN [err |-> Err("InvalidCode", 0, ""), code |-> NaN, name |-> NoText,
                       errorLogged |-> FALSE, logged |-> <<>>]
                 ELSE [err |-> NoErr, code |-> code, name |-> sel.Nombre,
                       errorLogged |-> FALSE, logged |-> <<>>]

(* What getUSDCurrencyCode does with a response once it has one: either it *)
(* throws err, or returns {code, name}; logged = the text it handed to     *)
(* logger.error.                                                           *)
UsdOutcome(result) ==
    LET currencies == currenciesOf(result)
        usdCandidates == usdCandidatesOf(currencies)
    IN  IF Len(usdCandidates) = 0
        THEN [err |-> Err("CurrencyNotFound", 0, ""), code |-> NaN, name |-> NoText,
              errorLogged |-> TRUE, logged |-> JoinNames(namesOf(currencies))]
        ELSE LET sel == selectedCurrency(usdCandidates)
                 code == ToNumber(sel.Codigo)
             IN  IF ~IsFinite(code)
                 THEN [err |-> Err("InvalidCode", 0, ""), code |-> NaN, name |-> NoText,
                       errorLogged |-> FALSE, logged |-> <<>>]
                 ELSE [err |-> NoErr, code |-> code, name |-> sel.Nombre,
                       errorLogged |-> FALSE, logged |-> <<>>]

--------------------------------------------------------------------------
(* Quotation rows and the quotations response.                             *)
Row(moneda, fecha, nombre, tcc, tcv, arbAct) ==
    [Moneda |-> moneda, Fecha |-> fecha, Nombre |-> nombre,
     CodigoISO |-> "USD", Emisor |-> "BCU", TCC |-> tcc, TCV |-> tcv,
     ArbAct |-> arbAct, FormaArbitrar |-> "undefined"]

\* a value that is no row (a field value, or an object without row fields):
\* every field read from it is undefined
PrimRow ==
    [Moneda |-> Undef, Fecha |-> NoFecha, Nombre |-> "undefined",
     CodigoISO |-> "undefined", Emisor |-> "undefined", TCC |-> Undef,
     TCV |-> Undef, ArbAct |-> Undef, FormaArbitrar |-> "undefined"]

\* the number of own fields of a row object
RowFields == <<"Moneda", "Fecha", "Nombre", "CodigoISO", "Emisor", "TCC", "TCV", "ArbAct">>

(* respuestastatus: the four spellings of the code field and the two of    *)
(* the message; a message of "" is absent.                                 *)
Status(codigoerror, Codigoerror, Codigoerr, Codigo, Mensaje, mensaje) ==
    [present |-> TRUE, codigoerror |-> codigoerror, Codigoerror |-> Codigoerror,
     Codigoerr |-> Codigoerr, Codigo |-> Codigo, Mensaje |-> Mensaje,
     mensaje |-> mensaje]

NoStatus ==
    [present |-> FALSE, codigoerror |-> Undef, Codigoerror |-> Undef,
     Codigoerr |-> Undef, Codigo |-> Undef, Mensaje |-> "", mensaje |-> ""]

(* The response object: the status under its four paths and the data under *)
(* its five.  salidaDato is Salida.datoscotizaciones['datoscotizaciones.   *)
(* dato'], salidaDatos is Salida.datoscotizaciones itself.                 *)
CotizResponse(stSalida, stOut, stTop, stRet, salidaDato, salidaDatos, outDatos, topDatos, retDatos) ==
    [nil |-> FALSE,
     stSalida |-> stSalida, stOut |-> stOut, stTop |-> stTop, stRet |-> stRet,
     salidaDato |-> salidaDato, salidaDatos |-> salidaDatos,
     outDatos |-> outDatos, topDatos |-> topDatos, retDatos |-> retDatos]

\* a null result
NullCotiz ==
    [nil |-> TRUE,
     stSalida |-> NoStatus, stOut |-> NoStatus, stTop |-> NoStatus,
     stRet |-> NoStatus, salidaDato |-> NoList, salidaDatos |-> NoList,
     outDatos |-> NoList, topDatos |-> NoList, retDatos |-> NoList]

\* bcu-service.js 136-140
RECURSIVE FirstPresent(_)
FirstPresent(sts) ==
    IF sts = <<>> THEN NoStatus
    ELSE IF Head(sts).present THEN Head(sts) ELSE FirstPresent(Tail(sts))

statusOf(result) ==
    FirstPresent(<<result.stSalida, result.stOut, result.stTop, result.stRet>>)

\* the code read under its first spelling only
errorCodeOfFirstSpelling(status) == ToNumber(Coalesce(status.codigoerror, Num(0)))

\* the code read from the first field that holds a number
errorCodeOfFirstNumeric(status) ==
    LET fields == <<status.codigoerror, status.Codigoerror, status.Codigoerr, status.Codigo>>
        nums == { f \in 1..4 : fields[f].k = "num" }
    IN  IF nums = {} THEN Num(0)
        ELSE fields[CHOOSE f \in nums : \A g \in nums : f <= g]

\* bcu-service.js 142-148
errorCodeOf(status) ==
    ToNumber(Coalesce(status.codigoerror,
             Coalesce(status.Codigoerror,
             Coalesce(status.Codigoerr,
             Coalesce(status.Codigo, Num(0))))))

\* bcu-service.js 155-156
messageOf(status) ==
    IF status.Mensaje # "" THEN status.Mensaje
    ELSE IF status.mensaje # "" THEN status.mensaje
    ELSE "BCU web service error"

\* bcu-service.js 161-167 and 286-292
exchangeDataOf(result) ==
    FirstTruthy(<<result.salidaDato, result.salidaDatos, result.outDatos,
                  result.topDatos, result.retDatos>>)

\* Object.values of a row-valued collection
RowObjectValues(lv) ==
    CASE lv.k = "map" -> lv.items
      [] lv.k = "rec" -> [i \in 1..Len(RowFields) |-> PrimRow]
      [] OTHER -> <<>>

\* bcu-service.js 171-178: an array as it is, any other object wrapped
dataListByDate(exchangeData) ==
    CASE exchangeData.k = "arr" -> exchangeData.items
      [] exchangeData.k = "rec" -> exchangeData.items
      [] exchangeData.k = "map" -> <<PrimRow>>
      [] OTHER -> RowObjectValues(exchangeData)

\* bcu-service.js 294-296
dataListRange(exchangeData) ==
    IF exchangeData.k = "arr" THEN exchangeData.items
    ELSE RowObjectValues(exchangeData)

\* a === b on numbers: NaN equals nothing
NumEq(a, b) == a.k = "num" /\ b.k = "num" /\ a.n = b.n

\* dayjs(x).format('YYYY-MM-DD'); dayjs(undefined) is now
FormatFecha(f, today) == IF f.k = "undef" THEN today ELSE FormatISO(f)

\* a find that trusts the response to hold the requested date only
MatchesCodeOnly(r, currencyCode, dateISO, today) ==
    NumEq(ToNumber(r.Moneda), ToNumber(currencyCode))

\* bcu-service.js 181-185, the find's predicate
Matches(r, currencyCode, dateISO, today) ==
    /\ NumEq(ToNumber(r.Moneda), ToNumber(currencyCode))
    /\ FormatFecha(r.Fecha, today) = dateISO

(* The standardized exchange rate object; isNull marks a null return.      *)
\* bcu-service.js 195-204 and 313-323
RateOf(record, today) ==
    [isNull |-> FALSE,
     date |-> FormatFecha(record.Fecha, today),
     currency |-> record.Nombre,
     isoCode |-> record.CodigoISO,
     issuer |-> record.Emisor,
     buyRate |-> ToNumber(record.TCC),
     sellRate |-> ToNumber(record.TCV),
     arbitrage |-> IF record.ArbAct.k # "null" THEN ToNumber(record.ArbAct) ELSE Null,
     arbitrageMethod |-> IF record.FormaArbitrar = "undefined" THEN "null"
                         ELSE record.FormaArbitrar]

NullRate ==
    [isNull |-> TRUE, date |-> <<0, 0, 0>>, currency |-> "undefined",
     isoCode |-> "undefined", issuer |-> "undefined", buyRate |-> NaN,
     sellRate |-> NaN, arbitrage |-> Null, arbitrageMethod |-> "null"]

(* getExchangeRateByDate once it has a response: throws err, or returns    *)
(* rate (NullRate for null).                                               *)
\* bcu-service.js 135-205
ByDateOutcomeBody(result, currencyCode, dateISO, today) ==
    LET dataList == dataListByDate(exchangeDataOf(result))
        found == SelectSeq(dataList, LAMBDA r : Matches(r, currencyCode, dateISO, today))
    IN  IF found = <<>>
        THEN [err |-> NoErr, rate |-> NullRate]
        ELSE [err |-> NoErr, rate |-> RateOf(found[1], today)]

\* the status check without lines 151-154: 100 raised like any other code
ByDateOutcomeNoSentinel(result, currencyCode, dateISO, today) ==
    LET status == statusOf(result)
        errorCode == errorCodeOf(status)
    IN  IF IsFinite(errorCode) /\ errorCode.n # 0
        THEN [err |-> Err("BCUError", errorCode.n, messageOf(status)),
              rate |-> NullRate]
        ELSE ByDateOutcomeBody(result, currencyCode, dateISO, today)

ByDateOutcome(result, currencyCode, dateISO, today) ==
    LET status == statusOf(result)
        errorCode == errorCodeOf(status)
    IN  IF IsFinite(errorCode) /\ errorCode.n # 0
        THEN IF errorCode.n = NoDataCode
             THEN [err |-> NoErr, rate |-> NullRate]
             ELSE [err |-> Err("BCUError", errorCode.n, messageOf(status)),
                   rate |-> NullRate]
        ELSE ByDateOutcomeBody(result, currencyCode, dateISO, today)

\* Array.prototype.sort with (a, b) => new Date(b.Fecha) - new Date(a.Fecha):
\* stable, the later instant first
RECURSIVE InsertDesc(_, _)
InsertDesc(sorted, r) ==
    IF sorted = <<>> THEN <<r>>
    ELSE IF DateValue(r.Fecha) > DateValue(Head(sorted).Fecha)
         THEN <<r>> \o sorted
         ELSE <<Head(sorted)>> \o InsertDesc(Tail(sorted), r)

RECURSIVE SortDesc(_)
SortDesc(rows) ==
    IF rows = <<>> THEN <<>>
    ELSE InsertDesc(SortDesc(SubSeq(rows, 1, Len(rows) - 1)), rows[Len(rows)])

\* the sort of lines 299-301 without the filter on Moneda
sortedRecordsOfUnfiltered(dataList, currencyCode) == SortDesc(dataList)

\* bcu-service.js 299-301
sortedRecordsOf(dataList, currencyCode) ==
    SortDesc(SelectSeq(dataList,
                       LAMBDA r : NumEq(ToNumber(r.Moneda), ToNumber(currencyCode))))

\* bcu-service.js 285-323: the fallback once it has a response
RangeOutcome(result, currencyCode, today) ==
    LET sortedRecords == sortedRecordsOf(dataListRange(exchangeDataOf(result)),
                                         currencyCode)
    IN  IF Len(sortedRecords) = 0
        THEN [err |-> NoErr, rate |-> NullRate]
        ELSE [err |-> NoErr, rate |-> RateOf(sortedRecords[1], today)]

--------------------------------------------------------------------------
(* The last-closing response: UltimoCierre under its three paths.          *)
CierreResponse(outCierre, topCierre, retCierre) ==
    [nil |-> FALSE, outCierre |-> outCierre, topCierre |-> topCierre,
     retCierre |-> retCierre]

NullCierre ==
    [nil |-> TRUE, outCierre |-> NoFecha, topCierre |-> NoFecha,
     retCierre |-> NoFecha]

\* bcu-service.js 230-233; result?. makes a null result yield undefined
lastClosingDateOf(result) ==
    IF result.outCierre.k # "undef" THEN result.outCierre
    ELSE IF result.topCierre.k # "undef" THEN result.topCierre
    ELSE result.retCierre

--------------------------------------------------------------------------
(* Request parameters.  GET /usd-rate validates ?date= before any lookup.  *)
IsDigit(c) == c \in {"0", "1", "2", "3", "4", "5", "6", "7", "8", "9"}

DigitVal(c) ==
    CASE c = "0" -> 0 [] c = "1" -> 1 [] c = "2" -> 2 [] c = "3" -> 3
      [] c = "4" -> 4 [] c = "5" -> 5 [] c = "6" -> 6 [] c = "7" -> 7
      [] c = "8" -> 8 [] c = "9" -> 9

\* the test with any character accepted between the groups of digits
isValidDateFormatAnySeparator(t) ==
    /\ Len(t) = 10
    /\ \A i \in {1, 2, 3, 4, 6, 7, 9, 10} : IsDigit(t[i])

\* /^\d{4}-\d{2}-\d{2}$/.test(dateString)
isValidDateFormat(t) ==
    /\ Len(t) = 10
    /\ \A i \in {1, 2, 3, 4, 6, 7, 9, 10} : IsDigit(t[i])
    /\ t[5] = "-" /\ t[8] = "-"

\* dayjs(text).format('YYYY-MM-DD') of a well-formed text: dayjs builds
\* new Date(y, m - 1, d), which carries a month or a day out of range over
ParseDateParam(t) ==
    LET y == DigitVal(t[1]) * 1000 + DigitVal(t[2]) * 100 + DigitVal(t[3]) * 10
             + DigitVal(t[4])
        m0 == DigitVal(t[6]) * 10 + DigitVal(t[7]) - 1
        d == DigitVal(t[9]) * 10 + DigitVal(t[10])
    IN  CivilFromDays(DaysFromCivil(y + m0 \div 12, (m0 % 12) + 1, 1) + d - 1)

--------------------------------------------------------------------------
(* The upstream: what the three SOAP services may answer, and the requests *)
(* the model explores.                                                     *)
N_BILLETE == Str(<<"D","Ó","L","A","R"," ","U","S","A"," ","B","I","L","L","E","T","E">>)
N_CABLE == Str(<<"D","Ó","L","A","R"," ","U","S","A"," ","C","A","B","L","E">>)
N_EURO == Str(<<"E","U","R","O">>)
N_DLS_DOT == Str(<<"D","L","S","."," ","U","S","A">>)
N_DLS_CASH == Str(<<"D","l","s","."," ","U","S","A"," ","C","a","s","h">>)
N_LOWER == Str(<<" ","d","ó","l","a","r"," ","u","s","a"," ">>)
N_PESO == Str(<<"P","E","S","O"," ","B","I","L","L","E","T","E">>)

\* currency codes used by the upstream data: USD cash, USD non-cash, other
Codes == <<2225, 2224, 1111>>
CodeCash == Codes[1]
CodeUsd == Codes[2]
CodeOther == Codes[3]

DescPool ==
    { Desc(Num(CodeCash), N_BILLETE), Desc(Num(CodeUsd), N_CABLE),
      Desc(Num(CodeOther), N_EURO), Desc(Num(CodeUsd), N_DLS_DOT),
      Desc(Num(CodeCash), N_DLS_CASH), Desc(Num(CodeUsd), N_LOWER),
      Desc(Num(CodeOther), N_PESO), Desc(Num(CodeOther), NoText),
      Desc(Undef, N_DLS_DOT) }

SeqsUpTo(S, n) == UNION { [1..k -> S] : k \in 0..n }

MonedasPool ==
    { MonedasResponse(Arr(l), NoList, NoList, NoList, NoList) :
        l \in SeqsUpTo(DescPool, MaxCurrencies) }
    \cup
    { MonedasResponse(NoList, Arr(<<Desc(Num(CodeOther), N_EURO), Desc(Num(CodeCash), N_BILLETE)>>),
                      Map(<<PrimDesc>>), NoList, NoList),
      MonedasResponse(NoList, NoList, Arr(<<Desc(Num(CodeUsd), N_CABLE)>>), NoList, NoList),
      MonedasResponse(NoList, NoList, NoList, Arr(<<Desc(Num(CodeCash), N_BILLETE)>>),
                      Map(<<PrimDesc>>)),
      MonedasResponse(NoList, NoList, NoList, NoList,
                      Map(<<Desc(Num(CodeUsd), N_DLS_DOT), Desc(Num(CodeOther), N_EURO)>>)),
      MonedasResponse(NoList, NoList, NoList, NoList, One(Desc(Num(CodeCash), N_BILLETE))),
      MonedasResponse(NoList, NoList, NoList, NoList, NoList),
      MonedasResponse(Arr(<<>>), NoList, NoList, Arr(<<Desc(Num(CodeCash), N_BILLETE)>>),
                      Map(<<PrimDesc>>)),
      NullMonedas }

D_DEC31 == <<2025, 12, 31>>
D_JAN02 == <<2026, 1, 2>>
Today == <<2026, 1, 5>>

RowPool ==
    { Row(Num(CodeCash), Fecha(2025, 12, 31, 0), "DLS. USA BILLETE", Num(3905), Num(4145), Num(1)),
      Row(Num(CodeCash), Fecha(2026, 1, 2, 0), "DLS. USA BILLETE", Num(3910), Num(4150), Null),
      Row(Num(CodeCash), Fecha(2026, 1, 2, 12), "DLS. USA BILLETE", Num(3912), Num(4152), Undef),
      Row(Num(CodeUsd), Fecha(2025, 12, 31, 0), "DLS. USA CABLE", Num(4020), Num(4021), Num(1)),
      Row(Num(CodeUsd), Fecha(2026, 1, 2, 0), "DLS. USA CABLE", Undef, Num(-1), Num(1)) }

RowLists == SeqsUpTo(RowPool, MaxRecords)

\* the data part of a response: <<salidaDato, salidaDatos, outDatos, topDatos, retDatos>>
DataPool ==
    { <<Arr(l), Map(<<PrimRow>>), NoList, NoList, NoList>> : l \in RowLists }
    \cup { <<NoList, Arr(l), NoList, NoList, NoList>> : l \in RowLists }
    \cup { <<NoList, NoList, Arr(l), NoList, NoList>> : l \in RowLists }
    \cup { <<NoList, NoList, NoList, Arr(l), NoList>> : l \in RowLists }
    \cup { <<NoList, NoList, NoList, NoList, Arr(l)>> : l \in RowLists }
    \cup { <<NoList, NoList, NoList, NoList, Map(l)>> : l \in RowLists }
    \cup { <<One(x), Map(<<PrimRow>>), NoList, NoList, NoList>> : x \in RowPool }
    \cup { <<NoList, One(x), NoList, NoList, NoList>> : x \in RowPool }
    \cup { <<Arr(<<>>), Map(<<PrimRow>>), NoList, Arr(<<x>>), NoList>> : x \in RowPool }
    \cup { <<NoList, NoList, NoList, NoList, NoList>> }

\* the status part: <<stSalida, stOut, stTop, stRet>>
StatusPool ==
    { <<NoStatus, NoStatus, NoStatus, NoStatus>>,
      <<Status(Num(0), Undef, Undef, Undef, "", ""), NoStatus, NoStatus, NoStatus>>,
      <<Status(Num(100), Undef, Undef, Undef, "No existe cotizacion", ""),
        NoStatus, NoStatus, NoStatus>>,
      <<Status(Num(250), Undef, Undef, Undef, "Fecha invalida", ""),
        NoStatus, NoStatus, NoStatus>>,
      <<NoStatus, Status(Undef, Num(100), Undef, Undef, "", ""), NoStatus, NoStatus>>,
      <<NoStatus, NoStatus, Status(Undef, Null, Num(250), Undef, "", "error de servicio"),
        NoStatus>>,
      <<NoStatus, NoStatus, NoStatus, Status(Undef, Undef, Undef, Num(7), "", "")>>,
      <<NoStatus, NoStatus, NoStatus, Status(Undef, Undef, Undef, Num(100), "", "")>>,
      <<Status(NaN, Undef, Undef, Num(250), "", ""), NoStatus, NoStatus, NoStatus>>,
      <<Status(Undef, Undef, Undef, Undef, "Sin codigo", ""), NoStatus, NoStatus,
        Status(Num(250), Undef, Undef, Undef, "", "")>> }

CotizPool ==
    { CotizResponse(st[1], st[2], st[3], st[4], d[1], d[2], d[3], d[4], d[5]) :
        st \in StatusPool, d \in DataPool }
    \cup { NullCotiz }

CierrePool ==
    { CierreResponse(Fecha(2025, 12, 31, 0), NoFecha, NoFecha),
      CierreResponse(NoFecha, Fecha(2026, 1, 2, 12), NoFecha),
      CierreResponse(NoFecha, NoFecha, Fecha(2026, 1, 2, 0)),
      CierreResponse(NoFecha, NoFecha, NoFecha),
      NullCierre }

\* the operations a created client may expose
ClientPool == { {"Execute", "execute", "awsultimocierre"}, {} }

\* what soap.createClientAsync may fail with
CreateErrors == {"ECONNREFUSED", "ETIMEDOUT"}

DateParamPool ==
    { NoText,
      Str(<<"i","n","v","a","l","i","d","-","d","a","t","e">>),
      Str(<<"2","0","2","5","-","1","2","-","3","1">>),
      Str(<<"2","0","2","6","-","0","1","-","0","2">>),
      Str(<<"2","0","2","5","-","0","2","-","3","0">>),
      Str(<<>>),
      Str(<<"2","0","2","5","/","1","2","/","3","1">>),
      Str(<<"2","0","2","5","-","1","-","0","1">>),
      Str(<<"2","0","2","5","-","1","2","-","3","a">>),
      Str(<<"3","1","-","1","2","-","2","0","2","5">>) }

\* texts of the legacy router
UsdBilletePath == <<"/","u","s","d","-","b","i","l","l","e","t","e">>
UsdRatePath == <<"/","u","s","d","-","r","a","t","e">>
LatestSuffix == <<"/","l","a","t","e","s","t">>
Q_DATE == <<"?","d","a","t","e","=","2","0","2","5","-","1","2","-","3","1">>
Q_TWO == <<"?","a","=","1","&","b","=","%","2","0">>
Q_NESTED == <<"?","u","=","/","x","?","y">>

\* req.url of the requests the legacy router matches; Express matches a
\* path with or without a trailing slash
UsdBilleteUrlPool ==
    { UsdBilletePath, UsdBilletePath \o Q_DATE, UsdBilletePath \o Q_TWO,
      UsdBilletePath \o Q_NESTED, UsdBilletePath \o <<"?">>,
      UsdBilletePath \o <<"/">> \o Q_DATE }

UsdBilleteLatestUrlPool ==
    { UsdBilletePath \o LatestSuffix, UsdBilletePath \o LatestSuffix \o Q_DATE }

Requests == {"r1"}

\* Two requests handled at the same time.  Each meets an upstream of its
\* own, fixed for the whole request: how many attempts of every
\* createClientAsync fail and with what, the operations the client exposes,
\* those that throw, and what each service answers.
PairRequests == {"r1", "r2"}

Upstream(createFails, client, throws, monedas, cierre, byDate, range) ==
    [createFails |-> createFails, createError |-> "ETIMEDOUT", client |-> client,
     throws |-> throws, monedas |-> monedas, cierre |-> cierre,
     byDate |-> byDate, range |-> range]

M_CASH == MonedasResponse(Arr(<<Desc(Num(CodeUsd), N_CABLE), Desc(Num(CodeCash), N_BILLETE)>>), NoList, NoList, NoList, NoList)
M_CABLE == MonedasResponse(NoList, NoList, Arr(<<Desc(Num(CodeUsd), N_CABLE)>>), NoList, NoList)
Q_ROWS == CotizResponse(NoStatus, NoStatus, NoStatus, NoStatus, NoList, Arr(<<Row(Num(CodeCash), Fecha(2025, 12, 31, 0), "DLS. USA BILLETE", Num(3905), Num(4145), Num(1)), Row(Num(CodeCash), Fecha(2026, 1, 2, 0), "DLS. USA BILLETE", Num(3910), Num(4150), Null)>>), NoList, NoList, NoList)
Q_CABLE == CotizResponse(NoStatus, NoStatus, NoStatus, NoStatus, NoList, NoList, NoList, NoList, Arr(<<Row(Num(CodeUsd), Fecha(2025, 12, 31, 0), "DLS. USA CABLE", Num(4020), Num(4021), Num(1))>>))
Q_NODATA == CotizResponse(Status(Num(100), Undef, Undef, Undef, "No existe cotizacion", ""), NoStatus, NoStatus, NoStatus, NoList, NoList, NoList, NoList, NoList)
Q_ERROR == CotizResponse(Status(Num(250), Undef, Undef, Undef, "Fecha invalida", ""), NoStatus, NoStatus, NoStatus, NoList, NoList, NoList, NoList, NoList)
Q_EMPTY == CotizResponse(NoStatus, NoStatus, NoStatus, NoStatus, NoList, NoList, NoList, NoList, NoList)
Z_DEC31 == CierreResponse(Fecha(2025, 12, 31, 0), NoFecha, NoFecha)
Z_JAN02 == CierreResponse(NoFecha, NoFecha, Fecha(2026, 1, 2, 0))
Z_NONE == CierreResponse(NoFecha, NoFecha, NoFecha)

UpstreamPool ==
    << Upstream(0, {"Execute", "execute", "awsultimocierre"}, {}, M_CASH, Z_DEC31, Q_ROWS, Q_ROWS),
       Upstream(1, {"Execute", "execute", "awsultimocierre"}, {"Execute"}, M_CABLE, Z_NONE, Q_NODATA, Q_CABLE),
       Upstream(DefaultRetries, {"Execute", "execute", "awsultimocierre"}, {}, M_CASH, Z_DEC31, Q_ROWS, Q_ROWS),
       Upstream(0, {}, {}, M_CASH, Z_DEC31, Q_ROWS, Q_ROWS),
       Upstream(0, {"Execute", "execute", "awsultimocierre"}, {"awsultimocierre"}, M_CASH, Z_JAN02, Q_ERROR, Q_EMPTY) >>

PairDateParamPool ==
    { Str(<<"2","0","2","5","-","1","2","-","3","1">>),
      Str(<<"2","0","2","5","/","1","2","/","3","1">>) }

--------------------------------------------------------------------------
(* State.  req[r] is everything one HTTP request owns: the code keeps no   *)
(* state outside a request (every client is created afresh).               *)
(*   endpoint, dateParam  the request                                      *)
(*   pc         where its handler stands                                   *)
(*   fn         the service function whose SOAP conversation is running    *)
(*   inTry      whether the try block of getLatestUSDExchangeRate is open  *)
(*   args       the arguments of the running conversation's operation     *)
(*   attempt, lastError, client, idx   locals of createSOAPClient and      *)
(*              invokeSOAPMethod                                           *)
(*   monedas, cotiz, cierre   the result of the invocation, by service     *)
(*   code, name  what getUSDCurrencyCode returned                          *)
(*   dateISO    the date getExchangeRateByDate was called with             *)
(*   rate       what the lookup returned                                   *)
(*   err        the error thrown                                           *)
(*   http       the response sent                                          *)
(*   calls      the upstream calls createSOAPClient and invokeSOAPMethod   *)
(*              have made in the running conversation; each failed one is  *)
(*              also a warn record of the logger                           *)
(*   logs       the other warn and error records the running service       *)
(*              function has emitted                                       *)
VARIABLES req

vars == <<req>>

Call(op, name, ok, n) == [op |-> op, name |-> name, ok |-> ok, n |-> n]
\* a record of the logger: its message and the text that follows it
Log(level, msg, data) == [level |-> level, msg |-> msg, data |-> data]
Http(status, currency, rate) == [status |-> status, currency |-> currency, rate |-> rate]
NoHttp == Http(0, NoText, NullRate)

\* config.server.env: NODE_ENV, "production" when it is not set
Environments == {"development", "production"}
DefaultEnv == "production"

\* the JSON body of a 500 response: the fixed text, what the spread of
\* (isDevelopment && {...}) adds (nothing when isDevelopment is false), and
\* the time of the answer
ErrorBody(error, details, stack) ==
    [error |-> error, details |-> details, stack |-> stack, timestamp |-> Today]
NoBody == [error |-> "", details |-> {}, stack |-> {}, timestamp |-> <<0, 0, 0>>]

\* the errors express.json hands to next() for a body that is not JSON
ParseErrors ==
    { Err("SyntaxError", 400, "Unexpected token"),
      Err("SyntaxError", 400, "Unexpected end of JSON input") }

\* the Entrada of a request to the upstream; the currencies and last-closing
\* services take the group alone
Args(moneda, desde, hasta) ==
    [Moneda |-> moneda, FechaDesde |-> desde, FechaHasta |-> hasta,
     Grupo |-> localExchangeRatesGroup]
NoArgs == [Moneda |-> NaN, FechaDesde |-> <<0, 0, 0>>, FechaHasta |-> <<0, 0, 0>>, Grupo |-> 0]

InitialRequest(endpoint, dateParam) ==
    [endpoint |-> endpoint, dateParam |-> dateParam, pc |-> "start",
     fn |-> "none", inTry |-> FALSE, args |-> NoArgs, attempt |-> 0,
     lastError |-> "",
     client |-> {}, idx |-> 0, monedas |-> NullMonedas, cotiz |-> NullCotiz,
     cierre |-> NullCierre, code |-> NaN, name |-> NoText,
     dateISO |-> <<0, 0, 0>>, rate |-> NullRate, err |-> NoErr,
     http |-> NoHttp, calls |-> <<>>, logs |-> <<>>,
     url |-> <<>>, location |-> <<>>, upstream |-> 0,
     env |-> DefaultEnv, body |-> NoBody]

InitialLegacyRequest(endpoint, url) ==
    [InitialRequest(endpoint, NoText) EXCEPT !.url = url]

\* a request whose application/json body does not parse: it stops at
\* jsonParserMiddleware, before any route
InitialMalformedRequest == [InitialRequest("health", NoText) EXCEPT !.pc = "body"]

InitialRequests ==
    { InitialRequest("usd-rate", d) : d \in DateParamPool }
    \cup { InitialRequest("usd-rate/latest", NoText), InitialMalformedRequest }
    \cup { InitialLegacyRequest("usd-billete", u) : u \in UsdBilleteUrlPool }
    \cup { InitialLegacyRequest("usd-billete/latest", u) : u \in UsdBilleteLatestUrlPool }

Init == req \in [Requests -> InitialRequests]

InitialPairRequests ==
    { [q EXCEPT !.upstream = u] :
        q \in { InitialRequest("usd-rate", d) : d \in PairDateParamPool }
              \cup { InitialRequest("usd-rate/latest", NoText),
                     InitialLegacyRequest("usd-billete", UsdBilletePath \o Q_DATE),
                     InitialLegacyRequest("usd-billete/latest", UsdBilletePath \o LatestSuffix) },
        u \in 1..Len(UpstreamPool) }

\* the second request is a lookup that gets as far as the quotations service,
\* one that no client is created for, or one whose body does not parse
InitialPairPeers ==
    { q \in InitialPairRequests :
        \/ /\ q.endpoint = "usd-rate" /\ isValidDateFormat(q.dateParam.s)
           /\ q.upstream \in {2, 3}
        \/ q.endpoint = "usd-rate/latest" /\ q.upstream = 5 }
    \cup { [InitialMalformedRequest EXCEPT !.upstream = 1] }

\* both requests are served by one process: one config.server.env
InitPair ==
    \E a \in InitialPairRequests \cup { [InitialMalformedRequest EXCEPT !.upstream = 1] },
       b \in InitialPairPeers, env \in Environments :
        req = [r \in PairRequests |->
                 [(IF r = "r1" THEN a ELSE b) EXCEPT !.env = env]]

\* a handler that keeps the last upstream responses in one place for all
\* requests
SetSharedResult(r, s) ==
    req' = [x \in DOMAIN req |->
              IF x = r THEN s
              ELSE [req[x] EXCEPT !.monedas = s.monedas, !.cotiz = s.cotiz,
                                  !.cierre = s.cierre]]

Set(r, s) == req' = [req EXCEPT ![r] = s]

\* the candidate operation names of each service function
methodNames(fn) ==
    IF fn = "lastClosing"
    THEN <<"awsultimocierre", "execute", "WSULTIMOCIERRE", "WSUltimoCierre">>
    ELSE IF fn = "usd"
    THEN <<"Execute", "awsbcumonedas", "execute", "WSBCUMONEDAS", "WSCotizacionesMonedas">>
    ELSE <<"Execute", "awsbcucotizaciones", "execute", "WSBCUCOTIZACIONES", "WSCotizaciones">>

\* bcu-service.js 21, 106-113, 220-222, 252-265
argsOf(s, fn) ==
    CASE fn = "byDate" -> Args(s.code, s.dateISO, s.dateISO)
      [] fn = "range" -> Args(s.code, SubtractDays(Today, maxDaysLookback), Today)
      [] OTHER -> Args(NaN, <<0, 0, 0>>, <<0, 0, 0>>)

\* a service function starts its SOAP conversation: createSOAPClient(url)
BeginCall(s, fn, inTry) ==
    [s EXCEPT !.pc = "create", !.fn = fn, !.inTry = inTry, !.attempt = 1,
              !.args = argsOf(s, fn),
              !.dateISO = IF fn = "range" THEN <<0, 0, 0>> ELSE @,
              !.lastError = "", !.client = {}, !.idx = 0,
              !.monedas = NullMonedas, !.cotiz = NullCotiz, !.cierre = NullCierre,
              !.rate = NullRate, !.err = NoErr, !.calls = <<>>, !.logs = <<>>]

\* createSOAPClient and invokeSOAPMethod are over: their locals are gone
Leave(s) ==
    [s EXCEPT !.attempt = 0, !.lastError = "", !.client = {}, !.idx = 0,
              !.calls = <<>>]

Throw(s, e) == [s EXCEPT !.pc = "thrown", !.err = e]

Respond(s, status, rate) ==
    [s EXCEPT !.pc = "done", !.http = Http(status, s.name, rate)]

\* res.redirect(status, url): the status and the Location header
Redirect(s, status, url) ==
    [s EXCEPT !.pc = "done", !.http = Http(status, NoText, NullRate),
              !.location = url]

\* String.prototype.substring(start)
Substring(t, start) == SubSeq(t, start + 1, Len(t))

\* the legacy handler with the query string left out of the target
Route_UsdBilleteNoQuery(r) ==
    LET s == req[r]
    IN  /\ s.pc = "start"
        /\ s.endpoint = "usd-billete"
        /\ Set(r, Redirect([s EXCEPT !.logs = Append(@, Log("warn", "Deprecated endpoint /usd-billete accessed", UsdRatePath))],
                           301, UsdRatePath))

(* GET /usd-billete: legacy router 82-95.                                  *)
Route_UsdBillete(r) ==
    LET s == req[r]
        queryString == Substring(s.url, Len(UsdBilletePath))
        redirectUrl == UsdRatePath \o queryString
    IN  /\ s.pc = "start"
        /\ s.endpoint = "usd-billete"
        /\ Set(r, Redirect([s EXCEPT !.logs = Append(@, Log("warn", "Deprecated endpoint /usd-billete accessed", redirectUrl))],
                           301, redirectUrl))

(* GET /usd-billete/latest: legacy router 102-111.                         *)
Route_UsdBilleteLatest(r) ==
    LET s == req[r]
    IN  /\ s.pc = "start"
        /\ s.endpoint = "usd-billete/latest"
        /\ Set(r, Redirect([s EXCEPT !.logs = Append(@, Log("warn", "Deprecated endpoint /usd-billete/latest accessed", <<>>))],
                           301, UsdRatePath \o LatestSuffix))

(* GET /usd-rate: exchange-rates.js 23-61, up to the first await.  dayjs   *)
(* is used without its customParseFormat plugin, so the format and strict  *)
(* arguments of line 47 are not read: a text that passed isValidDateFormat *)
(* always parses (ParseDateParam) and the reply of lines 48-54 is not sent.*)
Route_UsdRate(r) ==
    LET s == req[r]
    IN  /\ s.pc = "start"
        /\ s.endpoint = "usd-rate"
        /\ IF s.dateParam.k # "str" \/ s.dateParam.s = <<>>
           THEN Set(r, Respond(s, 400, NullRate))
           ELSE IF ~isValidDateFormat(s.dateParam.s)
           THEN Set(r, Respond(s, 400, NullRate))
           ELSE Set(r, BeginCall([s EXCEPT !.dateISO = ParseDateParam(s.dateParam.s)],
                                 "usd", FALSE))

(* A latest route that asks for the last closing without waiting for the  *)
(* currency code.                                                          *)
Route_UsdRateLatestEager(r) ==
    LET s == req[r]
    IN  /\ s.pc = "start"
        /\ s.endpoint = "usd-rate/latest"
        /\ Set(r, BeginCall(s, "lastClosing", TRUE))

(* GET /usd-rate/latest: exchange-rates.js 104-109.                        *)
Route_UsdRateLatest(r) ==
    LET s == req[r]
    IN  /\ s.pc = "start"
        /\ s.endpoint = "usd-rate/latest"
        /\ Set(r, BeginCall(s, "usd", FALSE))

(* createSOAPClient: helpers.js 139-169.                                   *)
createSOAPClient_Resolve(r) ==
    LET s == req[r]
    IN  /\ s.pc = "create"
        /\ \E c \in ClientPool :
              Set(r, [s EXCEPT !.pc = "invoke", !.client = c, !.idx = 1,
                               !.lastError = "",
                               !.calls = Append(@, Call("create", "", TRUE, s.attempt))])

createSOAPClient_Reject(r) ==
    LET s == req[r]
    IN  /\ s.pc = "create"
        /\ \E e \in CreateErrors :
              LET t == [s EXCEPT !.lastError = e,
                                 !.calls = Append(@, Call("create", "", FALSE, s.attempt))]
              IN  IF s.attempt < DefaultRetries
                  THEN Set(r, [t EXCEPT !.pc = "backoff"])
                  ELSE Set(r, Throw(t, Err("ClientCreation", DefaultRetries, e)))

\* a retry that waits one unit whatever the attempt
createSOAPClient_BackoffFixed(r) ==
    LET s == req[r]
    IN  /\ s.pc = "backoff"
        /\ Set(r, [s EXCEPT !.pc = "create", !.attempt = @ + 1,
                            !.calls = Append(@, Call("wait", "", TRUE, 1))])

createSOAPClient_Backoff(r) ==
    LET s == req[r]
    IN  /\ s.pc = "backoff"
        /\ Set(r, [s EXCEPT !.pc = "create", !.attempt = @ + 1,
                            !.calls = Append(@, Call("wait", "", TRUE, 2 ^ (s.attempt - 1)))])

\* a loop that takes the last name the client exposes instead of the first
NextExistingLast(s) ==
    LET names == methodNames(s.fn)
        found == { i \in s.idx..Len(names) : names[i] \in s.client }
    IN  IF found = {} THEN 0 ELSE CHOOSE i \in found : \A j \in found : i >= j

(* invokeSOAPMethod: helpers.js 78-131.  A name the client does not expose *)
(* is passed over without a call.                                          *)
NextExisting(s) ==
    LET names == methodNames(s.fn)
        found == { i \in s.idx..Len(names) : names[i] \in s.client }
    IN  IF found = {} THEN 0 ELSE CHOOSE i \in found : \A j \in found : i <= j

StoreResult(s, M, Q, C) ==
    [s EXCEPT !.pc = "responded", !.monedas = M, !.cotiz = Q, !.cierre = C]

invokeSOAPMethod_Return(r) ==
    LET s == req[r]
        i == NextExisting(s)
    IN  /\ s.pc = "invoke"
        /\ i # 0
        /\ LET t == [s EXCEPT !.idx = i,
                              !.calls = Append(@, Call("call", methodNames(s.fn)[i], TRUE, i))]
           IN  \/ /\ s.fn = "usd"
                  /\ \E m \in MonedasPool : Set(r, StoreResult(t, m, NullCotiz, NullCierre))
               \/ /\ s.fn \in {"byDate", "range"}
                  /\ \E q \in CotizPool : Set(r, StoreResult(t, NullMonedas, q, NullCierre))
               \/ /\ s.fn = "lastClosing"
                  /\ \E c \in CierrePool : Set(r, StoreResult(t, NullMonedas, NullCotiz, c))

\* a loop that asks an operation that failed a second time before it goes on
invokeSOAPMethod_ThrowRetryOnce(r) ==
    LET s == req[r]
        i == NextExisting(s)
        failed == \E k \in 1..Len(s.calls) :
                     s.calls[k] = Call("call", methodNames(s.fn)[i], FALSE, i)
    IN  /\ s.pc = "invoke"
        /\ i # 0
        /\ Set(r, [s EXCEPT !.idx = IF failed THEN i + 1 ELSE i,
                            !.calls = Append(@, Call("call", methodNames(s.fn)[i], FALSE, i))])

invokeSOAPMethod_Throw(r) ==
    LET s == req[r]
        i == NextExisting(s)
    IN  /\ s.pc = "invoke"
        /\ i # 0
        /\ Set(r, [s EXCEPT !.idx = i + 1,
                            !.calls = Append(@, Call("call", methodNames(s.fn)[i], FALSE, i))])

invokeSOAPMethod_Exhausted(r) ==
    LET s == req[r]
    IN  /\ s.pc = "invoke"
        /\ NextExisting(s) = 0
        /\ Set(r, [StoreResult(s, NullMonedas, NullCotiz, NullCierre)
                     EXCEPT !.idx = Len(methodNames(s.fn)) + 1,
                            !.logs = Append(@, Log("error", "All SOAP methods failed", <<>>))])

(* getUSDCurrencyCode after its invocation: bcu-service.js 35-94.          *)
getUSDCurrencyCode_Finish(r) ==
    LET s == req[r]
    IN  /\ s.pc = "responded"
        /\ s.fn = "usd"
        /\ IF s.monedas.nil
           THEN Set(r, Throw(s, Err("InvokeFailed", 0, "currencies")))
           ELSE LET o == UsdOutcome(s.monedas)
                    t == IF o.errorLogged
                         THEN [Leave(s) EXCEPT !.logs = Append(@, Log("error", "Available currencies:", o.logged))]
                         ELSE Leave(s)
                IN  IF o.err # NoErr
                    THEN Set(r, Throw(t, o.err))
                    ELSE Set(r, [t EXCEPT !.pc = "returned", !.code = o.code,
                                          !.name = o.name])

(* Route_AfterCurrency with strategy 1 of getLatestUSDExchangeRate outside *)
(* any try block.                                                          *)
Route_AfterCurrencyNoTry(r) ==
    LET s == req[r]
    IN  /\ s.pc = "returned"
        /\ s.fn = "usd"
        /\ IF s.endpoint = "usd-rate"
           THEN Set(r, BeginCall(s, "byDate", FALSE))
           ELSE Set(r, BeginCall(s, "lastClosing", FALSE))

(* The route after getUSDCurrencyCode returned: exchange-rates.js 60-61    *)
(* and 109-110, into getExchangeRateByDate or getLatestUSDExchangeRate.    *)
Route_AfterCurrency(r) ==
    LET s == req[r]
    IN  /\ s.pc = "returned"
        /\ s.fn = "usd"
        /\ IF s.endpoint = "usd-rate"
           THEN Set(r, BeginCall(s, "byDate", FALSE))
           ELSE Set(r, BeginCall(s, "lastClosing", TRUE))

(* getExchangeRateByDate asking the next candidate operation again when    *)
(* the response reports that there is no data.                             *)
getExchangeRateByDate_FinishRetryNoData(r) ==
    LET s == req[r]
    IN  /\ s.pc = "responded"
        /\ s.fn = "byDate"
        /\ IF s.cotiz.nil
           THEN Set(r, Throw(s, Err("InvokeFailed", 0, "exchange rates")))
           ELSE LET o == ByDateOutcome(s.cotiz, s.code, s.dateISO, Today)
                IN  IF o.err # NoErr
                    THEN Set(r, Throw(s, o.err))
                    ELSE IF errorCodeOf(statusOf(s.cotiz)) = Num(NoDataCode)
                              /\ s.idx < Len(methodNames(s.fn))
                    THEN Set(r, [s EXCEPT !.pc = "invoke", !.idx = @ + 1])
                    ELSE Set(r, [Leave(s) EXCEPT !.pc = "returned", !.rate = o.rate])

(* getExchangeRateByDate after its invocation: bcu-service.js 127-205.     *)
getExchangeRateByDate_Finish(r) ==
    LET s == req[r]
    IN  /\ s.pc = "responded"
        /\ s.fn = "byDate"
        /\ IF s.cotiz.nil
           THEN Set(r, Throw(s, Err("InvokeFailed", 0, "exchange rates")))
           ELSE LET o == ByDateOutcome(s.cotiz, s.code, s.dateISO, Today)
                IN  IF o.err # NoErr
                    THEN Set(r, Throw(s, o.err))
                    ELSE Set(r, [Leave(s) EXCEPT !.pc = "returned", !.rate = o.rate])

(* getLatestUSDExchangeRate, strategy 1, after the last-closing            *)
(* invocation: bcu-service.js 230-237.                                     *)
getLatest_AfterLastClosing(r) ==
    LET s == req[r]
        lastClosingDate == lastClosingDateOf(s.cierre)
    IN  /\ s.pc = "responded"
        /\ s.fn = "lastClosing"
        /\ IF lastClosingDate.k # "undef"
           THEN Set(r, BeginCall([s EXCEPT !.dateISO = FormatFecha(lastClosingDate, Today)],
                                 "byDate", TRUE))
           ELSE Set(r, BeginCall(s, "range", FALSE))

(* getLatest_AfterByDate going on to strategy 2 whatever strategy 1 found. *)
getLatest_AfterByDateAlwaysFallback(r) ==
    LET s == req[r]
    IN  /\ s.pc = "returned"
        /\ s.fn = "byDate"
        /\ s.inTry
        /\ Set(r, BeginCall(s, "range", FALSE))

(* ... after its getExchangeRateByDate returned: bcu-service.js 238-242;   *)
(* a record is returned to the route, which answers 200.                   *)
getLatest_AfterByDate(r) ==
    LET s == req[r]
    IN  /\ s.pc = "returned"
        /\ s.fn = "byDate"
        /\ s.inTry
        /\ IF ~s.rate.isNull
           THEN Set(r, Respond([s EXCEPT !.inTry = FALSE], 200, s.rate))
           ELSE Set(r, BeginCall(s, "range", FALSE))

(* ... the catch of strategy 1: bcu-service.js 243-248.                    *)
getLatest_Catch(r) ==
    LET s == req[r]
    IN  /\ s.pc = "thrown"
        /\ s.inTry
        /\ Set(r, [BeginCall(s, "range", FALSE)
                     EXCEPT !.logs = <<Log("warn", "Last closing service failed, using fallback method", <<>>)>>])

(* Strategy 2 reading the status of the response as getExchangeRateByDate *)
(* does.                                                                   *)
getLatest_Fallback_FinishChecked(r) ==
    LET s == req[r]
        errorCode == errorCodeOf(statusOf(s.cotiz))
    IN  /\ s.pc = "responded"
        /\ s.fn = "range"
        /\ IF s.cotiz.nil
           THEN Set(r, Throw(s, Err("InvokeFailed", 0, "fallback method")))
           ELSE IF IsFinite(errorCode) /\ errorCode.n \notin {0, NoDataCode}
           THEN Set(r, Throw(s, Err("BCUError", errorCode.n, messageOf(statusOf(s.cotiz)))))
           ELSE LET o == RangeOutcome(s.cotiz, s.code, Today)
                IN  Set(r, [Leave(s) EXCEPT !.pc = "returned", !.rate = o.rate,
                                     !.logs = IF o.rate.isNull
                                              THEN Append(@, Log("warn", "No recent exchange rate data found", <<>>))
                                              ELSE @])

(* ... strategy 2 after the range invocation: bcu-service.js 279-323.      *)
getLatest_Fallback_Finish(r) ==
    LET s == req[r]
    IN  /\ s.pc = "responded"
        /\ s.fn = "range"
        /\ IF s.cotiz.nil
           THEN Set(r, Throw(s, Err("InvokeFailed", 0, "fallback method")))
           ELSE LET o == RangeOutcome(s.cotiz, s.code, Today)
                IN  Set(r, [Leave(s) EXCEPT !.pc = "returned", !.rate = o.rate,
                                     !.logs = IF o.rate.isNull
                                              THEN Append(@, Log("warn", "No recent exchange rate data found", <<>>))
                                              ELSE @])

(* Route_Respond without the test of lines 64 and 113.                    *)
Route_RespondAlways200(r) ==
    LET s == req[r]
    IN  /\ s.pc = "returned"
        /\ \/ s.fn = "byDate" /\ ~s.inTry
           \/ s.fn = "range"
        /\ Set(r, Respond(s, 200, s.rate))

(* The route answers a lookup that returned: exchange-rates.js 63-85 and   *)
(* 112-134.                                                                *)
Route_Respond(r) ==
    LET s == req[r]
    IN  /\ s.pc = "returned"
        /\ \/ s.fn = "byDate" /\ ~s.inTry
           \/ s.fn = "range"
        /\ Set(r, Respond(s, IF s.rate.isNull THEN 404 ELSE 200, s.rate))

\* the fixed text of the route's 500 body: exchange-rates.js 92-93, 141
RouteErrorText(endpoint) ==
    IF endpoint = "usd-rate"
    THEN "Internal server error while querying BCU web service. Please verify connectivity and service availability."
    ELSE "Internal server error while querying latest exchange rate"

\* a catch that puts error.message in the body whatever the environment
Route_CatchWithDetails(r) ==
    LET s == req[r]
    IN  /\ s.pc = "thrown"
        /\ ~s.inTry
        /\ Set(r, [Respond(Leave(s), 500, NullRate)
                     EXCEPT !.logs = Append(@, Log("error", "Error in endpoint", <<>>)),
                            !.body = ErrorBody(RouteErrorText(s.endpoint), {s.err}, {})])

(* The route's catch: exchange-rates.js 86-97 and 135-145.                 *)
Route_Catch(r) ==
    LET s == req[r]
        isDevelopment == s.env = "development"
    IN  /\ s.pc = "thrown"
        /\ ~s.inTry
        /\ Set(r, [Respond(Leave(s), 500, NullRate)
                     EXCEPT !.logs = Append(@, Log("error", "Error in endpoint", <<>>)),
                            !.body = ErrorBody(RouteErrorText(s.endpoint),
                                               IF isDevelopment THEN {s.err} ELSE {},
                                               {})])

\* express.json calls next(error) and the global handler answers:
\* middleware/index.js 50-53, 59-73
errorHandlerMiddleware(r) ==
    LET s == req[r]
        isDevelopment == s.env = "development"
    IN  /\ s.pc = "body"
        /\ \E error \in ParseErrors :
              Set(r, [Respond(s, 500, NullRate)
                        EXCEPT !.err = error,
                               !.logs = Append(@, Log("error", "Unhandled application error", <<>>)),
                               !.body = ErrorBody("Internal server error",
                                                  IF isDevelopment THEN {error} ELSE {},
                                                  IF isDevelopment THEN {error} ELSE {})])

Next ==
    \E r \in Requests :
        \/ Route_UsdRate(r)
        \/ Route_UsdRateLatest(r)
        \/ Route_UsdBillete(r)
        \/ Route_UsdBilleteLatest(r)
        \/ createSOAPClient_Resolve(r)
        \/ createSOAPClient_Reject(r)
        \/ createSOAPClient_Backoff(r)
        \/ invokeSOAPMethod_Return(r)
        \/ invokeSOAPMethod_Throw(r)
        \/ invokeSOAPMethod_Exhausted(r)
        \/ getUSDCurrencyCode_Finish(r)
        \/ Route_AfterCurrency(r)
        \/ getExchangeRateByDate_Finish(r)
        \/ getLatest_AfterLastClosing(r)
        \/ getLatest_AfterByDate(r)
        \/ getLatest_Catch(r)
        \/ getLatest_Fallback_Finish(r)
        \/ Route_Respond(r)
        \/ Route_Catch(r)
        \/ errorHandlerMiddleware(r)

Spec == Init /\ [][Next]_vars

\* the step of request r heard the answer of the upstream that r meets
Answered(r) ==
    LET s == req[r]
        t == req'[r]
        u == UpstreamPool[s.upstream]
        i == NextExisting(s)
    IN  /\ s.pc = "create"
           => IF s.attempt <= u.createFails
              THEN t.pc # "invoke" /\ t.lastError = u.createError
              ELSE t.pc = "invoke" /\ t.client = u.client
        /\ (s.pc = "invoke" /\ i # 0)
           => IF methodNames(s.fn)[i] \in u.throws
              THEN t.pc = "invoke"
              ELSE /\ t.pc = "responded"
                   /\ t.monedas = IF s.fn = "usd" THEN u.monedas ELSE NullMonedas
                   /\ t.cotiz = IF s.fn = "byDate" THEN u.byDate
                                ELSE IF s.fn = "range" THEN u.range ELSE NullCotiz
                   /\ t.cierre = IF s.fn = "lastClosing" THEN u.cierre ELSE NullCierre

\* invokeSOAPMethod_Return with the response of the upstream that r meets,
\* which is one of the responses of the pools
invokeSOAPMethod_ReturnAnswer(r) ==
    LET s == req[r]
        i == NextExisting(s)
        u == UpstreamPool[s.upstream]
    IN  /\ s.pc = "invoke"
        /\ i # 0
        /\ u.monedas \in MonedasPool /\ u.cierre \in CierrePool
        /\ u.byDate \in CotizPool /\ u.range \in CotizPool
        /\ LET t == [s EXCEPT !.idx = i,
                              !.calls = Append(@, Call("call", methodNames(s.fn)[i], TRUE, i))]
           IN  \/ /\ s.fn = "usd"
                  /\ Set(r, StoreResult(t, u.monedas, NullCotiz, NullCierre))
               \/ /\ s.fn = "byDate"
                  /\ Set(r, StoreResult(t, NullMonedas, u.byDate, NullCierre))
               \/ /\ s.fn = "range"
                  /\ Set(r, StoreResult(t, NullMonedas, u.range, NullCierre))
               \/ /\ s.fn = "lastClosing"
                  /\ Set(r, StoreResult(t, NullMonedas, NullCotiz, u.cierre))

\* the handlers of Next, run by two requests in any interleaving
NextPair ==
    \E r \in PairRequests :
        \/ Route_UsdRate(r)
        \/ Route_UsdRateLatest(r)
        \/ Route_UsdBillete(r)
        \/ Route_UsdBilleteLatest(r)
        \/ createSOAPClient_Resolve(r) /\ Answered(r)
        \/ createSOAPClient_Reject(r) /\ Answered(r)
        \/ createSOAPClient_Backoff(r)
        \/ invokeSOAPMethod_ReturnAnswer(r) /\ Answered(r)
        \/ invokeSOAPMethod_Throw(r) /\ Answered(r)
        \/ invokeSOAPMethod_Exhausted(r)
        \/ getUSDCurrencyCode_Finish(r)
        \/ Route_AfterCurrency(r)
        \/ getExchangeRateByDate_Finish(r)
        \/ getLatest_AfterLastClosing(r)
        \/ getLatest_AfterByDate(r)
        \/ getLatest_Catch(r)
        \/ getLatest_Fallback_Finish(r)
        \/ Route_Respond(r)
        \/ Route_Catch(r)
        \/ errorHandlerMiddleware(r)

SpecPair == InitPair /\ [][NextPair]_vars

\* getUSDCurrencyCode alone, on the currencies responses of the pool and on
\* lists whose descriptors may carry a null Codigo (an empty element)
UsdDescPool == DescPool \cup { Desc(Null, N_BILLETE), Desc(Null, N_DLS_DOT) }

UsdResponsePool ==
    MonedasPool
    \cup { MonedasResponse(Arr(l), NoList, NoList, NoList, NoList) :
             l \in SeqsUpTo(UsdDescPool, MaxCurrencies) }

\* the request at line 35, holding the response of the currencies service
HeldCurrencies(m) ==
    StoreResult([BeginCall(InitialRequest("usd-rate/latest", NoText), "usd", FALSE)
                   EXCEPT !.pc = "invoke", !.idx = 1,
                          !.client = {"Execute", "execute", "awsultimocierre"},
                          !.calls = <<Call("create", "", TRUE, 1),
                                      Call("call", "Execute", TRUE, 1)>>],
                m, NullCotiz, NullCierre)

InitUsd == \E m \in UsdResponsePool : req = [r \in Requests |-> HeldCurrencies(m)]

NextUsd == \E r \in Requests : getUSDCurrencyCode_Finish(r)

SpecUsd == InitUsd /\ [][NextUsd]_vars

\* every upstream call that was made returns or fails, and every
\* continuation of a handler is run: no request that can take a step waits
\* for ever
SpecPairFair == SpecPair /\ WF_vars(NextPair)


--------------------------------------------------------------------------
(* Properties of getExchangeRateByDate.  What a response says is read here *)
(* from the response itself, apart from the operators of the lookup.       *)

ClaimMin(S) == CHOOSE i \in S : \A j \in S : i <= j

ClaimStatusPaths(q) == <<q.stSalida, q.stOut, q.stTop, q.stRet>>
ClaimCodeFields(st) == <<st.codigoerror, st.Codigoerror, st.Codigoerr, st.Codigo>>

\* the status of response q -- the first respuestastatus present, under its
\* first spelling of the code that holds a value -- reports the number n
ClaimReports(q, n) ==
    \E i \in 1..4 :
        /\ ClaimStatusPaths(q)[i].present
        /\ \A j \in 1..(i - 1) : ~ClaimStatusPaths(q)[j].present
        /\ \E f \in 1..4 :
              /\ ClaimCodeFields(ClaimStatusPaths(q)[i])[f] = Num(n)
              /\ \A g \in 1..(f - 1) :
                    ClaimCodeFields(ClaimStatusPaths(q)[i])[g].k \in {"undef", "null"}

\* the numbers written anywhere in the statuses of q
ClaimCodeValues(q) ==
    { ClaimCodeFields(ClaimStatusPaths(q)[i])[f].n : i \in 1..4, f \in 1..4 }

\* q reports an error: a number other than 0
ClaimReportsError(q) == \E n \in ClaimCodeValues(q) \ {0} : ClaimReports(q, n)

\* the text the reporting status carries, "" when it carries none
ClaimUpstreamMessage(q) ==
    LET i == ClaimMin({ j \in 1..4 : ClaimStatusPaths(q)[j].present })
        st == ClaimStatusPaths(q)[i]
    IN  IF st.Mensaje # "" THEN st.Mensaje ELSE st.mensaje

\* every row written anywhere in response q
ClaimAllRows(q) ==
    UNION { { l.items[i] : i \in 1..Len(l.items) } :
              l \in {q.salidaDato, q.salidaDatos, q.outDatos, q.topDatos, q.retDatos} }

\* row is a quotation of currency code on calendar day date
ClaimRowIs(row, code, date) ==
    /\ row.Moneda = code
    /\ row.Fecha.k = "date"
    /\ <<row.Fecha.y, row.Fecha.m, row.Fecha.d>> = date

\* rate is the standardized object of row
ClaimBuiltFrom(rate, row) ==
    /\ ~rate.isNull
    /\ rate.date = <<row.Fecha.y, row.Fecha.m, row.Fecha.d>>
    /\ rate.currency = row.Nombre
    /\ row.TCC.k = "num" => rate.buyRate = row.TCC
    /\ row.TCV.k = "num" => rate.sellRate = row.TCV

\* getExchangeRateByDate has received a response and has run to its end
ClaimByDateOver(s) ==
    s.fn = "byDate" /\ s.pc \in {"returned", "thrown"} /\ ~s.cotiz.nil


\* C1: whenever the response to getExchangeRateByDate's invocation reports
\* status code 100, the call returns null and raises nothing, for every
\* currency code and date, whether or not the response also carries rows.
C1_NoDataReturnsNull ==
    \A r \in Requests :
        LET s == req[r]
        IN  (ClaimByDateOver(s) /\ ClaimReports(s.cotiz, 100))
            => (s.pc = "returned" /\ s.rate.isNull /\ s.err = NoErr)

\* a lookup that returned null on status 100 although the response carried
\* the row of the requested currency and day
C1_Witness ==
    \E r \in Requests :
        LET s == req[r]
        IN  /\ ClaimByDateOver(s) /\ ClaimReports(s.cotiz, 100)
            /\ s.pc = "returned" /\ s.rate.isNull
            /\ \E row \in ClaimAllRows(s.cotiz) : ClaimRowIs(row, s.code, s.dateISO)

\* C2: whenever the status of the response reports a number other than 0
\* and 100, getExchangeRateByDate throws an error carrying that number and
\* the upstream message; it returns neither a record nor null.
C2_UpstreamErrorRaised ==
    \A r \in Requests :
        LET s == req[r]
        IN  \A n \in ClaimCodeValues(s.cotiz) \ {0, 100} :
                (ClaimByDateOver(s) /\ ClaimReports(s.cotiz, n))
                => /\ s.pc = "thrown"
                   /\ s.err.kind = "BCUError"
                   /\ s.err.code = n
                   /\ ClaimUpstreamMessage(s.cotiz) # ""
                         => s.err.message = ClaimUpstreamMessage(s.cotiz)
                   /\ s.rate = NullRate

\* a lookup that threw code 250 with its message although the response
\* carried the row of the requested currency and day
C2_Witness ==
    \E r \in Requests :
        LET s == req[r]
        IN  /\ ClaimByDateOver(s) /\ ClaimReports(s.cotiz, 250)
            /\ s.pc = "thrown" /\ s.err.code = 250
            /\ ClaimUpstreamMessage(s.cotiz) # ""
            /\ s.err.message = ClaimUpstreamMessage(s.cotiz)
            /\ \E row \in ClaimAllRows(s.cotiz) : ClaimRowIs(row, s.code, s.dateISO)

\* C3: when the status reports no error, getExchangeRateByDate returns the
\* object of the first row, in the order of the response's record list,
\* whose Moneda is the requested code and whose day is the requested date,
\* and null when no row is both; the date returned is the requested date.
C3_FirstMatchingRecord ==
    \A r \in Requests :
        LET s == req[r]
            rows == dataListByDate(exchangeDataOf(s.cotiz))
            M == { i \in 1..Len(rows) : ClaimRowIs(rows[i], s.code, s.dateISO) }
        IN  (ClaimByDateOver(s) /\ ~ClaimReportsError(s.cotiz))
            => /\ s.pc = "returned"
               /\ IF M = {} THEN s.rate.isNull
                  ELSE /\ ClaimBuiltFrom(s.rate, rows[ClaimMin(M)])
                       /\ s.rate.date = s.dateISO

\* a lookup that returned the second row of a response whose first row is
\* of another currency or of another day
C3_Witness ==
    \E r \in Requests :
        LET s == req[r]
            rows == dataListByDate(exchangeDataOf(s.cotiz))
        IN  /\ ClaimByDateOver(s) /\ ~ClaimReportsError(s.cotiz)
            /\ s.pc = "returned" /\ ~s.rate.isNull
            /\ Len(rows) >= 2
            /\ ~ClaimRowIs(rows[1], s.code, s.dateISO)
            /\ ClaimBuiltFrom(s.rate, rows[2])


--------------------------------------------------------------------------
(* Properties of getLatestUSDExchangeRate.                                 *)

ClaimDay(row) == <<row.Fecha.y, row.Fecha.m, row.Fecha.d>>

\* calendar day a is not after calendar day b
ClaimCalLeq(a, b) ==
    \/ a[1] < b[1]
    \/ a[1] = b[1] /\ a[2] < b[2]
    \/ a[1] = b[1] /\ a[2] = b[2] /\ a[3] <= b[3]

\* strategy 2 has received the range response and has run to its end
ClaimRangeOver(s) ==
    s.fn = "range" /\ s.pc \in {"returned", "thrown"} /\ ~s.cotiz.nil

ClaimSwallowed(s) ==
    \E k \in 1..Len(s.logs) :
        s.logs[k].msg = "Last closing service failed, using fallback method"

\* C4: when strategy 1 yields no record, the result of
\* getLatestUSDExchangeRate is the object of a row with the latest calendar
\* day (2 Jan of a year after 31 Dec of the year before) among the rows of
\* the range response whose Moneda is the requested code.
C4_FallbackLatestRecord ==
    \A r \in Requests :
        LET s == req[r]
            rows == dataListRange(exchangeDataOf(s.cotiz))
            C == { i \in 1..Len(rows) : rows[i].Moneda = s.code }
        IN  (ClaimRangeOver(s) /\ C # {})
            => /\ s.pc = "returned"
               /\ \E i \in C : ClaimBuiltFrom(s.rate, rows[i])
               /\ \A j \in C : ClaimCalLeq(ClaimDay(rows[j]), s.rate.date)

\* after a failure of strategy 1, a range response listing 31 Dec 2025
\* before 2 Jan 2026 for the requested code, answered with 2 Jan 2026
C4_Witness ==
    \E r \in Requests :
        LET s == req[r]
            rows == dataListRange(exchangeDataOf(s.cotiz))
        IN  /\ ClaimRangeOver(s) /\ s.pc = "returned" /\ ClaimSwallowed(s)
            /\ Len(rows) >= 2
            /\ rows[1].Moneda = s.code /\ ClaimDay(rows[1]) = D_DEC31
            /\ rows[2].Moneda = s.code /\ ClaimDay(rows[2]) = D_JAN02
            /\ s.rate.date = D_JAN02

\* C5: when the range response of strategy 2 holds no row of the requested
\* code (no row at all, or rows of other currencies only),
\* getLatestUSDExchangeRate returns null and raises nothing.
C5_FallbackEmptyReturnsNull ==
    \A r \in Requests :
        LET s == req[r]
        IN  (ClaimRangeOver(s) /\ \A row \in ClaimAllRows(s.cotiz) : row.Moneda # s.code)
            => (s.pc = "returned" /\ s.rate.isNull /\ s.err = NoErr)

\* a range response with rows of another currency only, answered with null
C5_Witness ==
    \E r \in Requests :
        LET s == req[r]
        IN  /\ ClaimRangeOver(s) /\ s.pc = "returned" /\ s.rate.isNull
            /\ \A row \in ClaimAllRows(s.cotiz) : row.Moneda # s.code
            /\ \E row \in ClaimAllRows(s.cotiz) : row.Moneda.k = "num"

\* getLatestUSDExchangeRate has raised to its caller
ClaimLatestRaised(s) ==
    /\ s.endpoint = "usd-rate/latest"
    /\ s.fn \in {"lastClosing", "byDate", "range"}
    /\ s.pc = "thrown" /\ ~s.inTry

ClaimCreations(s) == { i \in 1..Len(s.calls) : s.calls[i].op = "create" }
ClaimInvocations(s) == { i \in 1..Len(s.calls) : s.calls[i].op = "call" }

\* every attempt to create the client failed
ClaimClientNotCreated(s) ==
    ClaimCreations(s) # {} /\ \A i \in ClaimCreations(s) : ~s.calls[i].ok

\* the client was created and no candidate operation answered
ClaimCandidatesExhausted(s) ==
    /\ \E i \in ClaimCreations(s) : s.calls[i].ok
    /\ \A i \in ClaimInvocations(s) : ~s.calls[i].ok

\* a candidate operation answered, and its result was empty
ClaimAnsweredEmpty(s) ==
    /\ \E i \in ClaimInvocations(s) : s.calls[i].ok
    /\ s.cotiz.nil

\* C6 as stated: getLatestUSDExchangeRate raises only from strategy 2, and
\* only when its client cannot be created or its invocation exhausts every
\* candidate operation name; no failure of strategy 1 reaches the caller.
C6_RaisesOnlyOnTransportFailure ==
    \A r \in Requests :
        LET s == req[r]
        IN  ClaimLatestRaised(s)
            => /\ s.fn = "range"
               /\ ClaimClientNotCreated(s) \/ ClaimCandidatesExhausted(s)

\* C6 amended: getLatestUSDExchangeRate raises only from strategy 2, and
\* only when its client cannot be created or its range invocation yields no
\* result -- every candidate operation name exhausted, or the candidate that
\* answered returning an empty result; no failure of strategy 1 reaches the
\* caller.
C6_RaisesOnlyOnFallbackFailure ==
    \A r \in Requests :
        LET s == req[r]
        IN  ClaimLatestRaised(s)
            => /\ s.fn = "range"
               /\ \/ ClaimClientNotCreated(s) /\ s.err.kind = "ClientCreation"
                  \/ ClaimCandidatesExhausted(s) /\ s.err.kind = "InvokeFailed"
                  \/ ClaimAnsweredEmpty(s) /\ s.err.kind = "InvokeFailed"

\* strategy 1 failed and was swallowed, then strategy 2 raised on an empty
\* result of the operation that answered
C6_Witness ==
    \E r \in Requests :
        LET s == req[r]
        IN  /\ ClaimLatestRaised(s) /\ s.fn = "range"
            /\ ClaimSwallowed(s)
            /\ ClaimAnsweredEmpty(s)

\* strategy 1 has ended with a record
ClaimPhase1Record(s) ==
    /\ s.endpoint = "usd-rate/latest"
    /\ s.fn = "byDate" /\ s.pc = "returned" /\ ~s.rate.isNull

\* strategy 1 has ended without one: null, an exception, or no closing date
ClaimPhase1NoRecord(s) ==
    /\ s.endpoint = "usd-rate/latest"
    /\ \/ s.fn = "byDate" /\ s.pc = "returned" /\ s.rate.isNull
       \/ s.fn \in {"lastClosing", "byDate"} /\ s.pc = "thrown"
       \/ /\ s.fn = "lastClosing" /\ s.pc = "responded"
          /\ s.cierre.outCierre.k = "undef"
          /\ s.cierre.topCierre.k = "undef"
          /\ s.cierre.retCierre.k = "undef"

\* C7: getLatestUSDExchangeRate is two-phase.  A record from strategy 1 is
\* answered at once and no range query follows; every other end of strategy
\* 1 (exception, no date, null) is followed by the range query, started
\* afresh; the range query starts from no other state, and strategy 1 never
\* runs again after it.
C7_TwoPhase ==
    [][\A r \in Requests :
          LET s == req[r]
              t == req'[r]
          IN  t # s
              => /\ ClaimPhase1Record(s)
                    => /\ t.pc = "done" /\ t.fn # "range"
                       /\ t.http.status = 200 /\ t.http.rate = s.rate
                 /\ ClaimPhase1NoRecord(s)
                    => t.fn = "range" /\ t.pc = "create" /\ t.calls = <<>>
                 /\ (t.fn = "range" /\ s.fn # "range") => ClaimPhase1NoRecord(s)
                 /\ s.fn = "range" => t.fn = "range"
                 /\ s.pc # "done"]_vars

\* the record of strategy 1 answered, no range query made
C7_Witness ==
    \E r \in Requests :
        LET s == req[r]
        IN  /\ s.endpoint = "usd-rate/latest"
            /\ s.pc = "done" /\ s.fn = "byDate"
            /\ s.http.status = 200 /\ ~s.http.rate.isNull


--------------------------------------------------------------------------
(* Properties of getUSDCurrencyCode.  The normal form of each display name *)
(* the upstream of the model delivers, written out by hand: diacritics     *)
(* stripped, upper-cased, trimmed.                                         *)
ClaimNormalForm(name) ==
    CASE name = N_BILLETE ->
           <<"D","O","L","A","R"," ","U","S","A"," ","B","I","L","L","E","T","E">>
      [] name = N_CABLE -> <<"D","O","L","A","R"," ","U","S","A"," ","C","A","B","L","E">>
      [] name = N_EURO -> <<"E","U","R","O">>
      [] name = N_DLS_DOT -> <<"D","L","S","."," ","U","S","A">>
      [] name = N_DLS_CASH -> <<"D","L","S","."," ","U","S","A"," ","C","A","S","H">>
      [] name = N_LOWER -> <<"D","O","L","A","R"," ","U","S","A">>
      [] name = N_PESO -> <<"P","E","S","O"," ","B","I","L","L","E","T","E">>
      [] OTHER -> <<>>

\* the matching policy
ClaimUsdLike(d) ==
    \/ \E lit \in {DOLAR_USA, DLS_USA, DLS_DOT_USA} : Includes(ClaimNormalForm(d.Nombre), lit)
    \/ d.Nombre.k = "str" /\ Includes(d.Nombre.s, DLS_DOT_USA)

ClaimCashLike(d) ==
    \/ Includes(ClaimNormalForm(d.Nombre), BILLETE)
    \/ Includes(ClaimNormalForm(d.Nombre), CASH)

ClaimUsdIndices(list) == { i \in 1..Len(list) : ClaimUsdLike(list[i]) }

\* the tie-break: the first cash-like candidate, else the first candidate
ClaimExpected(list) ==
    LET K == { i \in ClaimUsdIndices(list) : ClaimCashLike(list[i]) }
    IN  IF K # {} THEN ClaimMin(K) ELSE ClaimMin(ClaimUsdIndices(list))

\* getUSDCurrencyCode has received a response and has run to its end
ClaimUsdOver(s) ==
    s.fn = "usd" /\ s.pc \in {"returned", "thrown"} /\ ~s.monedas.nil

\* C8: a descriptor is a USD candidate exactly when its normalized name
\* contains "DOLAR USA", "DLS USA" or "DLS. USA", or its original name
\* contains "DLS. USA": getUSDCurrencyCode finds no candidate exactly when
\* the list holds no such descriptor, what it returns is such a descriptor,
\* and a list with one such descriptor -- "DLS. USA" among them -- resolves
\* to it.
C8_MatchingPolicy ==
    \A r \in Requests :
        LET s == req[r]
            list == currenciesOf(s.monedas)
            U == ClaimUsdIndices(list)
        IN  ClaimUsdOver(s)
            => /\ (U = {}) <=> (s.pc = "thrown" /\ s.err.kind = "CurrencyNotFound")
               /\ s.pc = "returned"
                    => \E i \in U : list[i].Nombre = s.name /\ list[i].Codigo = s.code
               /\ (Cardinality(U) = 1 /\ list[ClaimMin(U)].Codigo.k = "num")
                    => /\ s.pc = "returned"
                       /\ s.name = list[ClaimMin(U)].Nombre
                       /\ s.code = list[ClaimMin(U)].Codigo

\* a list whose only USD-like entry is "DLS. USA", after another entry,
\* resolved to that entry
C8_Witness ==
    \E r \in Requests :
        LET s == req[r]
            list == currenciesOf(s.monedas)
            U == ClaimUsdIndices(list)
        IN  /\ ClaimUsdOver(s) /\ s.pc = "returned"
            /\ Cardinality(U) = 1 /\ ClaimMin(U) > 1
            /\ list[ClaimMin(U)].Nombre = N_DLS_DOT
            /\ s.name = N_DLS_DOT

\* C9: among the USD candidates getUSDCurrencyCode returns the first, in
\* delivered order, whose normalized name contains "BILLETE" or "CASH", and
\* the first candidate only when none does; the list DOLAR USA BILLETE,
\* DOLAR USA CABLE, EURO resolves to the BILLETE entry's code in any order.
C9_TieBreak ==
    \A r \in Requests :
        LET s == req[r]
            list == currenciesOf(s.monedas)
        IN  /\ (ClaimUsdOver(s) /\ ClaimUsdIndices(list) # {}
                  /\ list[ClaimExpected(list)].Codigo.k = "num")
               => /\ s.pc = "returned"
                  /\ s.name = list[ClaimExpected(list)].Nombre
                  /\ s.code = list[ClaimExpected(list)].Codigo
            /\ (ClaimUsdOver(s) /\ Len(list) = 3
                  /\ { list[i].Nombre : i \in 1..3 } = {N_BILLETE, N_CABLE, N_EURO})
               => (s.pc = "returned" /\ s.code = Num(CodeCash) /\ s.name = N_BILLETE)

\* a list whose first candidate is not a cash entry, resolved to a later
\* candidate that is
C9_Witness ==
    \E r \in Requests :
        LET s == req[r]
            list == currenciesOf(s.monedas)
        IN  /\ ClaimUsdOver(s) /\ s.pc = "returned"
            /\ ClaimUsdIndices(list) # {}
            /\ ClaimExpected(list) > ClaimMin(ClaimUsdIndices(list))
            /\ s.name = list[ClaimExpected(list)].Nombre
            /\ s.name # list[ClaimMin(ClaimUsdIndices(list))].Nombre

\* C10: when no descriptor of the list is a USD candidate (the empty list
\* included), getUSDCurrencyCode throws currency-not-found, returns no
\* code, and has by then logged at error level a text holding the display
\* name of every descriptor it considered.
C10_NotFoundLogged ==
    \A r \in Requests :
        LET s == req[r]
            list == currenciesOf(s.monedas)
        IN  (ClaimUsdOver(s) /\ ClaimUsdIndices(list) = {})
            => /\ s.pc = "thrown" /\ s.err.kind = "CurrencyNotFound"
               /\ s.code = NaN /\ s.name = NoText
               /\ \E k \in 1..Len(s.logs) :
                     /\ s.logs[k].level = "error"
                     /\ s.logs[k].msg = "Available currencies:"
                     /\ \A i \in 1..Len(list) :
                           list[i].Nombre.k = "str"
                           => Includes(s.logs[k].data, list[i].Nombre.s)

\* a list of two or more descriptors of different names, none USD-like,
\* failed with both names logged
C10_Witness ==
    \E r \in Requests :
        LET s == req[r]
            list == currenciesOf(s.monedas)
        IN  /\ ClaimUsdOver(s) /\ ClaimUsdIndices(list) = {}
            /\ Len(list) >= 2
            /\ s.pc = "thrown" /\ s.err.kind = "CurrencyNotFound"
            /\ list[1].Nombre.k = "str" /\ list[2].Nombre.k = "str"
            /\ list[1].Nombre # list[2].Nombre
            /\ \E k \in 1..Len(s.logs) :
                  /\ s.logs[k].level = "error"
                  /\ Includes(s.logs[k].data, list[1].Nombre.s)
                  /\ Includes(s.logs[k].data, list[2].Nombre.s)


--------------------------------------------------------------------------
(* Properties of the extraction of records from a response.                *)

\* C11: a quotation payload that is one record-shaped object is extracted
\* as the one-element list of that object, by getExchangeRateByDate and by
\* strategy 2 of getLatestUSDExchangeRate alike: the object's fields are
\* not taken for records, and the object is the record the lookup answers
\* with when it is of the requested currency (and day).
C11_SingleObjectIsOneRecord ==
    \A r \in Requests :
        LET s == req[r]
            data == exchangeDataOf(s.cotiz)
        IN  /\ (ClaimByDateOver(s) /\ ~ClaimReportsError(s.cotiz) /\ data.k = "rec")
               => /\ dataListByDate(data) = <<data.items[1]>>
                  /\ ClaimRowIs(data.items[1], s.code, s.dateISO)
                        => ClaimBuiltFrom(s.rate, data.items[1])
            /\ (ClaimRangeOver(s) /\ data.k = "rec")
               => /\ dataListRange(data) = <<data.items[1]>>
                  /\ data.items[1].Moneda = s.code
                        => ClaimBuiltFrom(s.rate, data.items[1])

\* C12: the records of a response delivered as an array under any of the
\* paths or as a mapping whose values are the records are extracted in
\* their number, whatever the shape, by each of the three extractions.
C12_ShapeInvariance ==
    \A r \in Requests :
        LET s == req[r]
            list == currencyList(s.monedas)
            data == exchangeDataOf(s.cotiz)
        IN  /\ (ClaimUsdOver(s) /\ list.k \in {"arr", "map"})
               => Len(currenciesOf(s.monedas)) = Len(list.items)
            /\ (ClaimByDateOver(s) /\ data.k \in {"arr", "map"})
               => Len(dataListByDate(data)) = Len(data.items)
            /\ (ClaimRangeOver(s) /\ data.k \in {"arr", "map"})
               => Len(dataListRange(data)) = Len(data.items)


--------------------------------------------------------------------------
(* Properties of invokeSOAPMethod.                                         *)

\* the candidate names the running invocation has called, by position
ClaimCalled(s) == { s.calls[i].n : i \in ClaimInvocations(s) }

\* C13: invokeSOAPMethod calls candidate names in list order; it calls no
\* name the client lacks and passes over none the client has; after a call
\* that throws it goes on, after one that answers it calls no other; when
\* every candidate is missing or has thrown, it returns null and raises
\* nothing.
C13_CandidateOrder ==
    \A r \in Requests :
        LET s == req[r]
            names == methodNames(s.fn)
            I == ClaimInvocations(s)
        IN  s.pc \in {"invoke", "responded"}
            => /\ \A i \in I : /\ s.calls[i].n \in 1..Len(names)
                               /\ s.calls[i].name = names[s.calls[i].n]
                               /\ s.calls[i].name \in s.client
               /\ \A i, j \in I : i < j => /\ s.calls[i].n < s.calls[j].n
                                           /\ ~s.calls[i].ok
               /\ \A i \in I : \A k \in 1..(s.calls[i].n - 1) :
                     names[k] \in s.client => k \in ClaimCalled(s)
               /\ (s.pc = "invoke" /\ I # {}) => \A i \in I : ~s.calls[i].ok
               /\ (s.pc = "responded" /\ \A i \in I : ~s.calls[i].ok)
                  => /\ \A k \in 1..Len(names) :
                           names[k] \in s.client => k \in ClaimCalled(s)
                     /\ s.monedas.nil /\ s.cotiz.nil /\ s.cierre.nil
                     /\ s.err = NoErr

\* the first name threw, the second is not on the client and was passed
\* over, the third answered and ended the invocation
C13_Witness ==
    \E r \in Requests :
        LET s == req[r]
            names == methodNames(s.fn)
            I == ClaimInvocations(s)
        IN  /\ s.pc = "responded"
            /\ names[2] \notin s.client
            /\ ClaimCalled(s) = {1, 3}
            /\ \E i, j \in I : /\ s.calls[i].n = 1 /\ ~s.calls[i].ok
                               /\ s.calls[j].n = 3 /\ s.calls[j].ok


--------------------------------------------------------------------------
(* Properties of the rate object.                                          *)

\* a lookup of quotations has returned a record
ClaimRecordReturned(s) ==
    s.fn \in {"byDate", "range"} /\ s.pc = "returned" /\ ~s.rate.isNull

ClaimFiniteNonNegative(v) == v.k = "num" /\ v.n >= 0

\* C14: every record getExchangeRateByDate or getLatestUSDExchangeRate
\* returns has a buyRate and a sellRate that are finite numbers not below
\* zero; a selected row whose TCC or TCV is no such number makes the call
\* raise instead, and no such record reaches a 200 response.
C14_RatesFiniteNonNegative ==
    \A r \in Requests :
        LET s == req[r]
        IN  /\ ClaimRecordReturned(s)
               => /\ ClaimFiniteNonNegative(s.rate.buyRate)
                  /\ ClaimFiniteNonNegative(s.rate.sellRate)
            /\ (s.pc = "done" /\ s.http.status = 200)
               => /\ ClaimFiniteNonNegative(s.http.rate.buyRate)
                  /\ ClaimFiniteNonNegative(s.http.rate.sellRate)


\* C15: the arbitrage of every returned record is null or a finite number;
\* it is null whenever the row it is built from has a null ArbAct or none.
C15_ArbitrageNullOrFinite ==
    \A r \in Requests :
        LET s == req[r]
        IN  ClaimRecordReturned(s)
            => /\ s.rate.arbitrage.k \in {"null", "num"}
               /\ \A row \in ClaimAllRows(s.cotiz) :
                     (ClaimBuiltFrom(s.rate, row) /\ row.ArbAct.k \in {"null", "undef"})
                     => s.rate.arbitrage = Null


--------------------------------------------------------------------------
(* Properties of the routes.                                               *)

ClaimRateEndpoints == {"usd-rate", "usd-rate/latest"}

\* the lookup the route awaits has returned to it
ClaimLookupReturned(s) ==
    /\ s.pc = "returned"
    /\ \/ s.fn = "byDate" /\ s.endpoint = "usd-rate"
       \/ s.fn = "byDate" /\ s.endpoint = "usd-rate/latest" /\ ~s.rate.isNull
       \/ s.fn = "range"

\* the currency resolver or the lookup has raised to the route
ClaimRaisedToRoute(s) == s.pc = "thrown" /\ ~s.inTry

\* C16: on GET /usd-rate and GET /usd-rate/latest a null result of the
\* lookup (status code 100 for the date included) is answered 404, an
\* error raised by the currency resolver or the lookup 500, a record 200
\* with that record; past the validation of the input no answer is sent
\* from any other state or with any other status.
C16_HttpMapping ==
    [][\A r \in Requests :
          LET s == req[r]
              t == req'[r]
          IN  (t # s /\ s.endpoint \in ClaimRateEndpoints)
              => /\ (ClaimLookupReturned(s) /\ s.rate.isNull)
                    => t.pc = "done" /\ t.http.status = 404
                 /\ (ClaimLookupReturned(s) /\ ~s.rate.isNull)
                    => t.pc = "done" /\ t.http.status = 200 /\ t.http.rate = s.rate
                 /\ ClaimRaisedToRoute(s)
                    => t.pc = "done" /\ t.http.status = 500 /\ t.http.rate.isNull
                 /\ (s.endpoint = "usd-rate" /\ s.pc = "returned" /\ s.fn = "byDate"
                       /\ ClaimReports(s.cotiz, 100))
                    => t.pc = "done" /\ t.http.status = 404
                 /\ (t.pc = "done" /\ s.pc # "start")
                    => ClaimLookupReturned(s) \/ ClaimRaisedToRoute(s)]_vars

\* GET /usd-rate answered 404 after status code 100 for the date
C16_Witness ==
    \E r \in Requests :
        LET s == req[r]
        IN  /\ s.endpoint = "usd-rate" /\ s.pc = "done"
            /\ s.http.status = 404
            /\ s.fn = "byDate" /\ ClaimReports(s.cotiz, 100)


\* the date parameters of the pool that are four digits, a hyphen, two
\* digits, a hyphen, two digits
ClaimWellFormedParams ==
    { Str(<<"2","0","2","5","-","1","2","-","3","1">>),
      Str(<<"2","0","2","6","-","0","1","-","0","2">>),
      Str(<<"2","0","2","5","-","0","2","-","3","0">>) }

\* C17: a GET /usd-rate request without a date parameter, or with one that
\* is not of the form YYYY-MM-DD, is never answered otherwise than with
\* 400, and no service function is entered and no upstream call is made
\* on its behalf.
C17_BadDateIs400 ==
    \A r \in Requests :
        LET s == req[r]
        IN  (s.endpoint = "usd-rate" /\ s.dateParam \notin ClaimWellFormedParams)
            => /\ s.pc \in {"start", "done"}
               /\ s.pc = "done" => s.http.status = 400 /\ s.http.rate.isNull
               /\ s.fn = "none"
               /\ s.calls = <<>>
               /\ s.monedas = NullMonedas /\ s.cotiz = NullCotiz

\* a date of ten characters with the wrong separators was answered 400
C17_Witness ==
    \E r \in Requests :
        LET s == req[r]
        IN  /\ s.endpoint = "usd-rate" /\ s.pc = "done"
            /\ s.dateParam = Str(<<"2","0","2","5","/","1","2","/","3","1">>)
            /\ s.http.status = 400


\* the part of a URL from its first question mark on, and the part before
ClaimQueryStart(u) ==
    LET marks == { i \in 1..Len(u) : u[i] = "?" }
    IN  IF marks = {} THEN Len(u) + 1 ELSE ClaimMin(marks)

ClaimQueryOf(u) == SubSeq(u, ClaimQueryStart(u), Len(u))

ClaimPathOf(u) == SubSeq(u, 1, ClaimQueryStart(u) - 1)

ClaimLegacyEndpoints == {"usd-billete", "usd-billete/latest"}

\* C18: a GET /usd-billete request is only ever answered with 301 and a
\* Location whose path is /usd-rate (with the trailing slash of the request,
\* if it had one) and whose query string is the request's, character for
\* character; a GET /usd-billete/latest request with 301 and the Location
\* /usd-rate/latest; neither handler enters a service function or makes an
\* upstream call.
C18_LegacyRedirects ==
    \A r \in Requests :
        LET s == req[r]
        IN  s.endpoint \in ClaimLegacyEndpoints
            => /\ s.pc \in {"start", "done"}
               /\ s.fn = "none" /\ s.calls = <<>>
               /\ s.monedas = NullMonedas /\ s.cotiz = NullCotiz /\ s.cierre = NullCierre
               /\ s.pc = "done" => s.http.status = 301
               /\ (s.pc = "done" /\ s.endpoint = "usd-billete")
                  => /\ ClaimQueryOf(s.location) = ClaimQueryOf(s.url)
                     /\ ClaimPathOf(s.location)
                           = <<"/","u","s","d","-","r","a","t","e">>
                               \o SubSeq(ClaimPathOf(s.url), 13, Len(ClaimPathOf(s.url)))
                     /\ Len(ClaimPathOf(s.url)) <= 13
               /\ (s.pc = "done" /\ s.endpoint = "usd-billete/latest")
                  => s.location = <<"/","u","s","d","-","r","a","t","e","/","l","a","t","e","s","t">>

\* /usd-billete?a=1&b=%20 was redirected
C18_Witness ==
    \E r \in Requests :
        LET s == req[r]
        IN  /\ s.endpoint = "usd-billete" /\ s.pc = "done"
            /\ ClaimQueryOf(s.url) = <<"?","a","=","1","&","b","=","%","2","0">>
            /\ s.http.status = 301


--------------------------------------------------------------------------
(* Two requests at once.  What a request would be answered if it were      *)
(* handled alone is computed here by running the service functions one     *)
(* after the other against the upstream the request meets.                 *)

ClaimRaise == [kind |-> "raise", rate |-> NullRate]
ClaimNull == [kind |-> "null", rate |-> NullRate]
ClaimRecord(rate) == [kind |-> "record", rate |-> rate]

\* createSOAPClient gives a client; some operation of the service answers
ClaimCreated(u) == u.createFails < DefaultRetries

ClaimAnswering(u, fn) ==
    \E i \in 1..Len(methodNames(fn)) :
        methodNames(fn)[i] \in u.client /\ methodNames(fn)[i] \notin u.throws

ClaimByDateAlone(u, code, date) ==
    IF ~ClaimCreated(u) \/ ~ClaimAnswering(u, "byDate") \/ u.byDate.nil
    THEN ClaimRaise
    ELSE LET o == ByDateOutcome(u.byDate, code, date, Today)
         IN  IF o.err # NoErr THEN ClaimRaise
             ELSE IF o.rate.isNull THEN ClaimNull
             ELSE ClaimRecord(o.rate)

ClaimRangeAlone(u, code) ==
    IF ~ClaimCreated(u) \/ ~ClaimAnswering(u, "range") \/ u.range.nil
    THEN ClaimRaise
    ELSE LET o == RangeOutcome(u.range, code, Today)
         IN  IF o.rate.isNull THEN ClaimNull ELSE ClaimRecord(o.rate)

ClaimLatestAlone(u, code) ==
    LET closing == IF ClaimAnswering(u, "lastClosing") THEN u.cierre ELSE NullCierre
        day == lastClosingDateOf(closing)
        first == IF ~ClaimCreated(u) \/ day.k = "undef"
                 THEN ClaimNull
                 ELSE ClaimByDateAlone(u, code, FormatFecha(day, Today))
    IN  IF first.kind = "record" THEN first ELSE ClaimRangeAlone(u, code)

ClaimLookupAlone(q, u) ==
    IF ~ClaimCreated(u) \/ ~ClaimAnswering(u, "usd") \/ u.monedas.nil
    THEN ClaimRaise
    ELSE LET o == UsdOutcome(u.monedas)
         IN  IF o.err # NoErr THEN ClaimRaise
             ELSE IF q.endpoint = "usd-rate"
             THEN ClaimByDateAlone(u, o.code, ParseDateParam(q.dateParam.s))
             ELSE ClaimLatestAlone(u, o.code)

\* <<status, record, Location>> of the request q handled alone
ClaimAnswerAlone(q, u) ==
    IF q.pc = "body" \/ q.err \in ParseErrors
    THEN <<500, NullRate, <<>>>>
    ELSE IF q.endpoint = "usd-billete"
    THEN <<301, NullRate, <<"/","u","s","d","-","r","a","t","e">> \o ClaimQueryOf(q.url)>>
    ELSE IF q.endpoint = "usd-billete/latest"
    THEN <<301, NullRate, <<"/","u","s","d","-","r","a","t","e","/","l","a","t","e","s","t">>>>
    ELSE IF q.endpoint = "usd-rate" /\ q.dateParam \notin ClaimWellFormedParams
    THEN <<400, NullRate, <<>>>>
    ELSE LET o == ClaimLookupAlone(q, u)
         IN  IF o.kind = "raise" THEN <<500, NullRate, <<>>>>
             ELSE IF o.kind = "null" THEN <<404, NullRate, <<>>>>
             ELSE <<200, o.rate, <<>>>>

\* C19: with two requests handled at the same time, in any interleaving of
\* their steps and upstream calls, each request is answered as it would be
\* if it were handled alone against the upstream answers it meets (record,
\* null or error), and holds at every moment only responses of its own
\* upstream.
C19_RequestsIndependent ==
    \A r \in PairRequests :
        LET s == req[r]
            u == UpstreamPool[s.upstream]
        IN  /\ s.pc = "done"
               => <<s.http.status, s.http.rate, s.location>> = ClaimAnswerAlone(s, u)
            /\ s.monedas \in {NullMonedas, u.monedas}
            /\ s.cotiz \in {NullCotiz, u.byDate, u.range}
            /\ s.cierre \in {NullCierre, u.cierre}

\* one request answered 200 and the other, asking for the same date of a
\* different upstream, 404
C19_Witness ==
    /\ req["r1"].pc = "done" /\ req["r2"].pc = "done"
    /\ req["r1"].endpoint = "usd-rate" /\ req["r2"].endpoint = "usd-rate"
    /\ req["r1"].dateParam = req["r2"].dateParam
    /\ req["r1"].upstream # req["r2"].upstream
    /\ req["r1"].http.status = 200
    /\ req["r2"].http.status = 404


--------------------------------------------------------------------------
(* Properties of the order of the extraction paths.                        *)

ClaimMonedasPaths(m) == <<m.linea, m.outMonedas, m.out, m.retMonedas, m.ret>>
ClaimDataPaths(q) == <<q.salidaDato, q.salidaDatos, q.outDatos, q.topDatos, q.retDatos>>

\* the records of the first path, in priority order, that holds a sequence
\* with at least one record; the empty sequence when there is none
ClaimFirstRecords(paths) ==
    LET full == { i \in 1..Len(paths) : paths[i].k = "arr" /\ Len(paths[i].items) > 0 }
    IN  IF full = {} THEN <<>> ELSE paths[ClaimMin(full)].items

ClaimNoPath(paths) == \A i \in 1..Len(paths) : paths[i].k = "undef"

\* C20: where the extraction takes a sequence, the records it yields are
\* those of the first path in priority order that holds a non-empty
\* sequence -- an empty sequence under a higher path does not hide the
\* records under a lower one -- and a response with none of the paths yields
\* the empty sequence and no error.
C20_FirstNonEmptyPath ==
    \A r \in Requests :
        LET s == req[r]
            list == currencyList(s.monedas)
            data == exchangeDataOf(s.cotiz)
        IN  /\ (ClaimUsdOver(s) /\ list.k = "arr")
               => currenciesOf(s.monedas) = ClaimFirstRecords(ClaimMonedasPaths(s.monedas))
            /\ (ClaimByDateOver(s) /\ data.k = "arr")
               => dataListByDate(data) = ClaimFirstRecords(ClaimDataPaths(s.cotiz))
            /\ (ClaimRangeOver(s) /\ data.k = "arr")
               => dataListRange(data) = ClaimFirstRecords(ClaimDataPaths(s.cotiz))
            /\ (ClaimByDateOver(s) /\ ~ClaimReportsError(s.cotiz)
                  /\ ClaimNoPath(ClaimDataPaths(s.cotiz)))
               => dataListByDate(data) = <<>> /\ s.pc = "returned" /\ s.rate.isNull
            /\ (ClaimRangeOver(s) /\ ClaimNoPath(ClaimDataPaths(s.cotiz)))
               => dataListRange(data) = <<>> /\ s.pc = "returned" /\ s.rate.isNull


--------------------------------------------------------------------------
(* Properties of createSOAPClient.                                         *)

\* the creation attempts among the first i calls
ClaimAttemptsUpTo(c, i) == Cardinality({ j \in 1..i : c[j].op = "create" })

\* the creation has raised to its caller
ClaimCreationRaised(s) == s.pc = "thrown" /\ s.err.kind = "ClientCreation"

\* C21: one createSOAPClient call makes at most 3 creation attempts,
\* numbered in order; nothing is attempted or waited for after an attempt
\* that succeeded; failed attempt k below 3 is followed by a wait of
\* 2^(k-1) units (1, then 2) and by nothing else; failed attempt 3 is
\* followed by no wait and raises the failure, which carries the number of
\* attempts and the error of that last attempt.
C21_CreateRetries ==
    \A r \in Requests :
        LET s == req[r]
            c == s.calls
        IN  /\ ClaimAttemptsUpTo(c, Len(c)) <= DefaultRetries
            /\ \A i \in 1..Len(c) :
                  /\ c[i].op = "create"
                     => /\ c[i].n = ClaimAttemptsUpTo(c, i)
                        /\ c[i].ok
                           => \A j \in (i + 1)..Len(c) : c[j].op \notin {"create", "wait"}
                        /\ (~c[i].ok /\ c[i].n < DefaultRetries)
                           => IF i = Len(c) THEN s.pc = "backoff"
                              ELSE c[i + 1] = Call("wait", "", TRUE, 2 ^ (c[i].n - 1))
                        /\ (~c[i].ok /\ c[i].n = DefaultRetries)
                           => /\ i = Len(c)
                              /\ s.pc = "thrown"
                              /\ s.lastError \in CreateErrors
                              /\ s.err = Err("ClientCreation", DefaultRetries, s.lastError)
                  /\ c[i].op = "wait"
                     => /\ i > 1
                        /\ c[i - 1].op = "create" /\ ~c[i - 1].ok
                        /\ c[i - 1].n < DefaultRetries
                        /\ c[i].n \in {1, 2}
            /\ ClaimCreationRaised(s)
               => /\ Len(c) = 2 * DefaultRetries - 1
                  /\ c[Len(c)] = Call("create", "", FALSE, DefaultRetries)

\* three attempts failed, with waits of 1 and 2 between them, and the
\* failure was raised
C21_Witness ==
    \E r \in Requests :
        LET s == req[r]
        IN  /\ ClaimCreationRaised(s)
            /\ Len(s.calls) = 5
            /\ s.calls[2] = Call("wait", "", TRUE, 1)
            /\ s.calls[4] = Call("wait", "", TRUE, 2)
            /\ s.err.message = s.lastError


--------------------------------------------------------------------------
(* Properties of the order of upstream calls.                              *)

\* the operation invocations that returned, among the recorded calls
ClaimReturnedCalls(c) == { i \in 1..Len(c) : c[i].op = "call" /\ c[i].ok }

\* C22: once an invocation of getExchangeRateByDate has returned a response
\* with status code 100, the call is only ever at the point where it holds
\* that response or where it has returned null: that invocation is the one
\* that returned and the last upstream call made, with no client creation
\* and no other invocation after it, and the route answers 404.
C22_NoDataIsFinal ==
    \A r \in Requests :
        LET s == req[r]
            c == s.calls
        IN  (s.fn = "byDate" /\ ~s.cotiz.nil /\ ClaimReports(s.cotiz, 100))
            => /\ s.pc \in {"responded", "returned", "done"}
               /\ s.pc = "responded"
                  => /\ Len(c) > 0
                     /\ ClaimReturnedCalls(c) = {Len(c)}
               /\ s.pc \in {"returned", "done"}
                  => s.rate.isNull /\ s.err = NoErr /\ s.calls = <<>>
               /\ s.pc = "done" => s.http.status = 404

\* strategy 1 of the latest lookup was told "no data" and returned null
C22_Witness ==
    \E r \in Requests :
        LET s == req[r]
        IN  /\ s.fn = "byDate" /\ s.inTry /\ s.pc = "returned"
            /\ ~s.cotiz.nil /\ ClaimReports(s.cotiz, 100)
            /\ s.rate.isNull


--------------------------------------------------------------------------
(* Termination.                                                            *)

ClaimRunning(s) == s.pc \in {"create", "backoff", "invoke", "responded"}

\* within one contact of a service (one createSOAPClient call and the
\* invokeSOAPMethod call on its client): at most 3 creations, and every
\* candidate name invoked at most once
ClaimCallsBounded(s) ==
    /\ ClaimAttemptsUpTo(s.calls, Len(s.calls)) <= DefaultRetries
    /\ \A i, j \in 1..Len(s.calls) :
          (s.calls[i].op = "call" /\ s.calls[j].op = "call"
             /\ s.calls[i].name = s.calls[j].name)
          => i = j
    /\ Len(s.calls) <= 2 * DefaultRetries - 1 + Len(methodNames(s.fn))

\* a service function of the request is running or has handed over to the
\* next one; an answered request has none running
ClaimAllCompleted(s) == s.pc = "done" /\ ~ClaimRunning(s)

\* C23: when every upstream call returns or fails, every request comes to
\* be answered, which the route does only once getUSDCurrencyCode and the
\* lookup (getExchangeRateByDate or getLatestUSDExchangeRate) have returned
\* a record or null or raised; each contact of a service makes at most 3
\* client creations and invokes each candidate operation name at most once.
C23_Terminates ==
    /\ [](\A r \in PairRequests : ClaimCallsBounded(req[r]))
    /\ <>(\A r \in PairRequests : ClaimAllCompleted(req[r]))

\* a latest lookup went through a retried creation and a failed operation
\* in its fallback and was answered
C23_Witness ==
    \E r \in PairRequests :
        LET s == req[r]
        IN  /\ s.endpoint = "usd-rate/latest" /\ s.pc = "done"
            /\ s.fn = "range" /\ s.upstream = 2


--------------------------------------------------------------------------
(* Properties of the reading of the status.                                *)

\* the response reports a status code other than 0 and 100
ClaimReportsFailure(q) == \E n \in ClaimCodeValues(q) \ {0, 100} : ClaimReports(q, n)

\* C24: strategy 2 of getLatestUSDExchangeRate never raises on account of
\* the response it received: a range response that reports a code other
\* than 0 and 100 and holds no row of the currency makes it return null, and
\* no error, where getExchangeRateByDate raises the upstream error on the
\* same response.
C24_FallbackIgnoresStatus ==
    \A r \in Requests :
        LET s == req[r]
        IN  ClaimRangeOver(s)
            => /\ s.pc = "returned" /\ s.err = NoErr
               /\ (ClaimReportsFailure(s.cotiz)
                     /\ \A row \in ClaimAllRows(s.cotiz) : row.Moneda # s.code)
                  => /\ s.rate.isNull
                     /\ ByDateOutcome(s.cotiz, s.code, Today, Today).err.kind = "BCUError"

\* the fallback returned null on a response that reports code 250
C24_Witness ==
    \E r \in Requests :
        LET s == req[r]
        IN  /\ ClaimRangeOver(s) /\ s.pc = "returned" /\ s.rate.isNull
            /\ ClaimReports(s.cotiz, 250)
            /\ \A row \in ClaimAllRows(s.cotiz) : row.Moneda # s.code


\* the response carries no status under any path
ClaimNoStatus(q) == \A i \in 1..4 : ~ClaimStatusPaths(q)[i].present

\* the fields of the first status found that are neither absent nor null
ClaimCodesGiven(q) ==
    LET st == ClaimStatusPaths(q)[ClaimMin({ i \in 1..4 : ClaimStatusPaths(q)[i].present })]
    IN  { f \in 1..4 : ClaimCodeFields(st)[f].k \notin {"undef", "null"} }

\* ... that status has no code field, or the code it gives is not a number
ClaimNoNumericCode(q) ==
    /\ ~ClaimNoStatus(q)
    /\ LET st == ClaimStatusPaths(q)[ClaimMin({ i \in 1..4 : ClaimStatusPaths(q)[i].present })]
       IN  \/ ClaimCodesGiven(q) = {}
           \/ ClaimCodeFields(st)[ClaimMin(ClaimCodesGiven(q))].k # "num"

\* C25: when the response carries no status under any path, or the status
\* found has no code field, or its code is not a number,
\* getExchangeRateByDate raises nothing and answers from the records: the
\* object of a row of the extracted list that is of the requested currency
\* and day when there is one, null otherwise.
C25_NoCodeIsSuccess ==
    \A r \in Requests :
        LET s == req[r]
            list == dataListByDate(exchangeDataOf(s.cotiz))
            hits == { i \in 1..Len(list) : ClaimRowIs(list[i], s.code, s.dateISO) }
        IN  (ClaimByDateOver(s) /\ (ClaimNoStatus(s.cotiz) \/ ClaimNoNumericCode(s.cotiz)))
            => /\ s.pc = "returned" /\ s.err = NoErr
               /\ hits = {} => s.rate.isNull
               /\ hits # {} => ClaimBuiltFrom(s.rate, list[ClaimMin(hits)])

\* a lookup answered with a record although a later field of the status,
\* behind a code that is not a number, holds 250
C25_Witness ==
    \E r \in Requests :
        LET s == req[r]
        IN  /\ ClaimByDateOver(s) /\ ClaimNoNumericCode(s.cotiz)
            /\ s.cotiz.stSalida.present
            /\ s.cotiz.stSalida.codigoerror.k = "nan"
            /\ s.cotiz.stSalida.Codigo = Num(250)
            /\ s.pc = "returned" /\ ~s.rate.isNull


--------------------------------------------------------------------------
(* Properties of what getUSDCurrencyCode returns.                          *)

\* C26: whenever getUSDCurrencyCode returns, the code is a finite number,
\* the Codigo of the selected descriptor, and the name is that descriptor's
\* Nombre; when the Codigo of the selected descriptor is absent, null or
\* not a number, the call raises the invalid-code error and does not
\* return.
C26_CodeFiniteOrRaises ==
    \A r \in Requests :
        LET s == req[r]
            usdCandidates == usdCandidatesOf(currenciesOf(s.monedas))
            sel == selectedCurrency(usdCandidates)
        IN  (ClaimUsdOver(s) /\ Len(usdCandidates) > 0)
            => /\ s.pc = "returned"
                  => /\ s.code.k = "num"
                     /\ s.code = sel.Codigo
                     /\ s.name = sel.Nombre
               /\ sel.Codigo.k # "num"
                  => s.pc = "thrown" /\ s.err.kind = "InvalidCode"


--------------------------------------------------------------------------
(* Properties of the order of the two steps of a rate endpoint.            *)

ClaimLookupFns == {"lastClosing", "byDate", "range"}

\* C27: on both rate endpoints the first service function entered is
\* getUSDCurrencyCode; the last-closing and quotations services are entered
\* only from the point where it has returned a finite code, that code is
\* kept unchanged to the end of the request and is the Moneda of every
\* quotations request; when getUSDCurrencyCode raises, the next step answers
\* 500 and no lookup is started.
C27_ResolveBeforeLookup ==
    [][\A r \in Requests :
          LET s == req[r]
              t == req'[r]
          IN  (t # s /\ s.endpoint \in ClaimRateEndpoints)
              => /\ s.fn = "none" => t.fn \in {"none", "usd"}
                 /\ (s.fn = "usd" /\ t.fn \in ClaimLookupFns)
                    => /\ s.pc = "returned"
                       /\ s.code.k = "num"
                       /\ t.code = s.code
                 /\ s.fn \in ClaimLookupFns
                    => t.fn \in ClaimLookupFns /\ t.code = s.code
                 /\ t.fn \in {"byDate", "range"} => t.args.Moneda = t.code
                 /\ (s.fn = "usd" /\ s.pc = "thrown")
                    => /\ t.pc = "done" /\ t.fn = "usd"
                       /\ t.http.status = 500]_vars

\* the quotations service is being asked about the code that
\* getUSDCurrencyCode returned
C27_Witness ==
    \E r \in Requests :
        LET s == req[r]
        IN  /\ s.fn = "byDate" /\ s.pc = "invoke"
            /\ s.code = Num(2225)
            /\ s.args.Moneda = s.code

\* a request answered with status 500
ClaimFailed(s) == s.pc = "done" /\ s.http.status = 500

\* a body with its timestamp put aside
ClaimSansTimestamp(b) == [error |-> b.error, details |-> b.details, stack |-> b.stack]

\* C28: when the environment is not 'development', the body of a 500 response
\* carries neither details nor stack, and two requests that fail in the same
\* handler with different internal errors get bodies that are equal once the
\* timestamp is put aside.
C28_BodyHidesError ==
    \A a \in PairRequests, b \in PairRequests :
        (ClaimFailed(req[a]) /\ req[a].env # "development")
        => /\ req[a].body.details = {}
           /\ req[a].body.stack = {}
           /\ req[a].body.error # ""
           /\ (ClaimFailed(req[b]) /\ req[b].endpoint = req[a].endpoint)
              => ClaimSansTimestamp(req[a].body) = ClaimSansTimestamp(req[b].body)

\* outside development, two requests to one rate endpoint have failed with
\* different internal errors
C28_Witness ==
    /\ \A r \in PairRequests :
          /\ ClaimFailed(req[r])
          /\ req[r].env # "development"
          /\ req[r].endpoint \in ClaimRateEndpoints
    /\ req["r1"].endpoint = req["r2"].endpoint
    /\ req["r1"].err # req["r2"].err

====
